---- MODULE Spec2Model ----
(***************************************************************************)
(* The summarisation client of the repository (the Gemini model fallback   *)
(* loop with its process-wide cooldown table) and the text preparation in  *)
(* front of it, as a state machine.                                        *)
(*                                                                         *)
(* Strings are sequences of one-character strings.  Korean literals of the *)
(* source are written with ASCII stand-ins (named where they are defined). *)
(* Python's None is the string "None" where a model name is expected and   *)
(* the one-element sequence NoneText where a text is expected.             *)
(***************************************************************************)
EXTENDS Integers, Sequences, FiniteSets, TLC

VARIABLES
    now,              \* time.time(): the wall clock of the process
    MODEL_COOLDOWNS,  \* config._MODEL_COOLDOWNS: model name -> expiry timestamp
    config,           \* the GeminiConfig the process builds from its environment
    impl,             \* which summarise function the process calls
    pc,               \* per thread: position in the summarise call
    frame,            \* per thread: the local variables of the running call
    result,           \* per thread: what the last finished call returned or raised
    trace,            \* per thread: cooldown checks, requests and responses of the call
    worker,           \* the queue worker the process is: "dcinside", "reddit", or "none"
    broker,           \* the RabbitMQ queue: message bodies, ready messages, deliveries
    site,             \* per item: what the detail fetch of its URL gives
    db,               \* the committed rows of the database
    job,              \* per thread: the delivery a handler holds and its local variables
    stored,           \* the last upsert_items call: its arguments and what it returned
    batch,            \* a batch of comments: as fetched, normalised, stored and rendered
    producer,         \* the store script: its source row, its last run, the audit log
    answer,           \* a model's answer and what the title+summary variant reads from it
    sieve,            \* a listed post, the age bounds of the store script, and whether the post passed
    digest,           \* the digest subscriptions and the last tick of the auto-digest task
    registry,         \* the source table and the callers of get_or_create_source
    pipeline          \* a store script run in steps, the job queue and the worker that takes the jobs

vars == <<now, MODEL_COOLDOWNS, config, impl, pc, frame, result, trace,
          worker, broker, site, db, job, stored, batch, producer, answer, sieve, digest, registry, pipeline>>

workerVars == <<worker, broker, site, db, job, stored, batch, producer, answer, sieve, digest, registry, pipeline>>

-----------------------------------------------------------------------------
(* Bounds of the model *)

T0 == 100          \* the clock at process start
Step == 15         \* seconds one clock tick advances
MaxTicks == 3      \* clock ticks per behaviour
MaxLen == 3        \* longest body text the text specification submits
MaxItemId == 3     \* largest value the id sequence of the item table hands out
MaxDeliveries == 2 \* deliveries of one message the broker makes per behaviour

(* Program constants *)

COOLDOWN_FLOOR == 30
DEFAULT_IMAGE_LIMIT == 8
TITLE_LIMIT == 80

None == "None"
NoneText == <<None>>

Threads == {1, 2}
MainThread == {1}

Min2(a, b) == IF a <= b THEN a ELSE b
Max2(a, b) == IF a >= b THEN a ELSE b

-----------------------------------------------------------------------------
(* Strings *)

Whitespace == {" ", "\n"}

RECURSIVE lstrip(_)
lstrip(s) == IF s # <<>> /\ Head(s) \in Whitespace THEN lstrip(Tail(s)) ELSE s

RECURSIVE rstrip(_)
rstrip(s) ==
    IF s # <<>> /\ s[Len(s)] \in Whitespace THEN rstrip(SubSeq(s, 1, Len(s) - 1)) ELSE s

strip(s) == rstrip(lstrip(s))

\* s[:n] of Python: a negative n counts from the end.
SlicePrefix(s, n) ==
    LET k == IF n >= 0 THEN Min2(n, Len(s)) ELSE Max2(Len(s) + n, 0)
    IN  SubSeq(s, 1, k)

Contains(s, sub) ==
    \E i \in 1..(Len(s) - Len(sub) + 1) : SubSeq(s, i, i + Len(sub) - 1) = sub

LowerChar(c) ==
    CASE c = "Q" -> "q"
      [] c = "R" -> "r"
      [] c = "E" -> "e"
      [] OTHER -> c

lower(s) == [i \in 1..Len(s) |-> LowerChar(s[i])]

\* "(본문 텍스트 없음 — 이미지를 기반으로 요약해 주세요.)"
PLACEHOLDER == <<"(", ")">>
\* "\n..."
ELLIPSIS == <<"\n", ".", ".", ".">>

-----------------------------------------------------------------------------
(* Error messages: str(exc) of a SummaryError, kept as a record of its parts *)

Msg(text, model, status, detail) ==
    [text |-> text, model |-> model, status |-> status, detail |-> detail]

NoMsg == Msg("", None, 0, <<>>)
MsgMissingKey == Msg("Missing GEMINI_API_KEY.", None, 0, <<>>)
MsgNoContent == Msg("No text or images available for summarisation.", None, 0, <<>>)
MsgNoModels == Msg("No Gemini models configured.", None, 0, <<>>)
MsgAllSkipped ==
    Msg("All Gemini models were skipped due to cooldown or configuration.", None, 0, <<>>)
MsgTimeout(model) == Msg("Gemini API call timed out for model", model, 0, <<>>)
MsgRequestFailed(model) == Msg("Gemini API request failed for model", model, 0, <<>>)
MsgQuota(model, detail) == Msg("Gemini model exhausted or unavailable", model, 0, detail)
MsgStatus(model, status, detail) == Msg("Gemini API returned status", model, status, detail)
MsgInvalidJSON == Msg("Invalid JSON from Gemini API.", None, 0, <<>>)
MsgNoSummary == Msg("Gemini API returned no summary text.", None, 0, <<>>)
MsgEmptyTitleText == Msg("Gemini API returned empty text for title+summary.", None, 0, <<>>)
MsgOnlyLabels == Msg("Gemini API returned only label lines without content.", None, 0, <<>>)

-----------------------------------------------------------------------------
(* What requests.post can give back for one request.  error_message is what *)
(* _extract_error_message reads from a non-200 body, text is what           *)
(* _extract_summary_text reads from a 200 body: a sequence of lines, already *)
(* stripped, empty when the body holds no usable text.                      *)

Response(kind, status, valid_json, text, error_message) ==
    [kind |-> kind, status |-> status, valid_json |-> valid_json,
     text |-> text, error_message |-> error_message]

\* Lines of a model's answer.  "[title]" and "[summary]" stand for the label
\* lines "[제목]" and "[요약문]".
OutputTexts == {<<"x", "y">>, <<"[title]">>}

ErrQuota == <<"Q", "u", "o", "t", "a">>
ErrModerated == <<"m", "o", "d", "e", "R", "a", "t", "e", "d">>
ErrBad == <<"b", "a", "d">>

Responses ==
    {Response("timeout", 0, FALSE, <<>>, <<>>),
     Response("request_error", 0, FALSE, <<>>, <<>>),
     Response("http", 200, FALSE, <<>>, <<>>),
     Response("http", 200, TRUE, <<>>, <<>>),
     Response("http", 429, TRUE, <<>>, ErrBad),
     Response("http", 503, FALSE, <<>>, ErrBad),
     Response("http", 400, TRUE, <<>>, ErrQuota),
     Response("http", 500, TRUE, <<>>, ErrModerated),
     Response("http", 400, FALSE, <<>>, ErrBad)}
    \cup {Response("http", 200, TRUE, txt, <<>>) : txt \in OutputTexts}

\* The answers the API gives to the requests of a queue worker: one of each
\* class of Responses (a failure, a quota error, an answer, an answer of label
\* lines only).
WorkerResponses ==
    {Response("timeout", 0, FALSE, <<>>, <<>>),
     Response("http", 429, TRUE, <<>>, ErrBad)}
    \cup {Response("http", 200, TRUE, txt, <<>>) : txt \in OutputTexts}

QuotaKeywords ==
    {<<"q", "u", "o", "t", "a">>, <<"e", "x", "h", "a", "u", "s", "t">>,
     <<"4", "2", "9">>, <<"r", "a", "t", "e">>}

is_quota_error(message) ==
    LET lowered == lower(message)
    IN  \E keyword \in QuotaKeywords : Contains(lowered, keyword)

QuotaStatuses == {429, 503}

\* _invoke_gemini for one request that got the response resp: what it returns
\* or raises.  tag "return": summary; tag "quota": _ModelQuotaError(message);
\* tag "error": SummaryError(message).
Outcome(tag, summary, message) == [tag |-> tag, summary |-> summary, message |-> message]

invoke_gemini(model, resp) ==
    IF resp.kind = "timeout" THEN Outcome("error", <<>>, MsgTimeout(model))
    ELSE IF resp.kind = "request_error" THEN Outcome("error", <<>>, MsgRequestFailed(model))
    ELSE IF resp.status # 200 THEN
        IF resp.status \in QuotaStatuses \/ is_quota_error(resp.error_message)
        THEN Outcome("quota", <<>>, MsgQuota(model, resp.error_message))
        ELSE Outcome("error", <<>>, MsgStatus(model, resp.status, resp.error_message))
    ELSE IF ~resp.valid_json THEN Outcome("error", <<>>, MsgInvalidJSON)
    ELSE IF resp.text = <<>> THEN Outcome("error", <<>>, MsgNoSummary)
    ELSE Outcome("return", resp.text, NoMsg)

-----------------------------------------------------------------------------
(* The cooldown table *)

cooldown_until(table, model) == IF model \in DOMAIN table THEN table[model] ELSE 0

set_cooldown(table, model, seconds, clock) ==
    [m \in DOMAIN table \cup {model} |->
        IF m = model THEN clock + Max2(seconds, 0) ELSE table[m]]

\* A clear that removes nothing.
clear_cooldown_noop(table, model) == table

clear_cooldown(table, model) == [m \in DOMAIN table \ {model} |-> table[m]]

-----------------------------------------------------------------------------
(* Preparation of a call: text, model list, images *)

\* (text or "").strip()
stripped_text(text) == strip(IF text = NoneText THEN <<>> ELSE text)

\* The content gate without the placeholder: no text, no call.
gate_text_no_placeholder(text, image_paths) ==
    IF stripped_text(text) # <<>> THEN stripped_text(text) ELSE NoneText

\* The content gate: the text the call goes on with, NoneText when it raises.
gate_text(text, image_paths) ==
    LET text_to_use == stripped_text(text)
    IN  IF text_to_use # <<>> THEN text_to_use
        ELSE IF image_paths # <<>> THEN PLACEHOLDER
        ELSE NoneText

\* The truncation without the marker.
truncate_text_unmarked(text_to_use, max_text_length) ==
    IF Len(text_to_use) > max_text_length
    THEN SlicePrefix(text_to_use, max_text_length)
    ELSE text_to_use

\* The cut to the character budget.
truncate_text(text_to_use, max_text_length) ==
    IF Len(text_to_use) > max_text_length
    THEN SlicePrefix(text_to_use, max_text_length) \o ELLIPSIS
    ELSE text_to_use

\* Model names are atoms; "  " is a name of blanks only, which strip() empties.
ModelNames == {"M1", "M2"}
BlankName == "  "
strip_name(model) == IF model = BlankName THEN "" ELSE model

NonEmptyName(model) == model # ""

available_models(model_priorities) ==
    SelectSeq([k \in 1..Len(model_priorities) |-> strip_name(model_priorities[k])],
              NonEmptyName)

\* Image paths: "a.jpg" can be read, "gone.jpg" cannot be opened, "empty.jpg"
\* holds no bytes, "" is an empty path.
ReadablePaths == {"a.jpg"}

RECURSIVE build_image_parts(_, _, _)
build_image_parts(image_paths, limit, count) ==
    IF image_paths = <<>> \/ count >= Max2(limit, 0) THEN <<>>
    ELSE IF Head(image_paths) \in ReadablePaths
         THEN <<Head(image_paths)>> \o build_image_parts(Tail(image_paths), limit, count + 1)
         ELSE build_image_parts(Tail(image_paths), limit, count)

-----------------------------------------------------------------------------
(* The title+summary variant's reading of a model's answer *)

LabelLines == {"[title]", "[summary]"}

\* "제목:" in front of a line is cut off; "title:x" stands for such a line.
strip_title_label(line) ==
    CASE line = "title:x" -> "x"
      [] line = "title:" -> ""
      [] OTHER -> line

RECURSIVE drop_leading_blank(_)
drop_leading_blank(lines) ==
    IF lines # <<>> /\ Head(lines) = "" THEN drop_leading_blank(Tail(lines)) ELSE lines

NotLabelLine(line) == line \notin LabelLines
NotBlankLine(line) == line # ""

\* [ok, title, summary, message]: ok = FALSE when the function raises message.
parse_title_summary(full_text) ==
    LET raw_lines == drop_leading_blank(full_text)
        kept == SelectSeq(raw_lines, NotLabelLine)
        lines == drop_leading_blank([k \in 1..Len(kept) |-> strip_title_label(kept[k])])
        body_lines == SelectSeq(Tail(lines), NotBlankLine)
    IN  IF raw_lines = <<>>
        THEN [ok |-> FALSE, title |-> "", summary |-> <<>>, message |-> MsgEmptyTitleText]
        ELSE IF lines = <<>>
        THEN [ok |-> FALSE, title |-> "", summary |-> <<>>, message |-> MsgOnlyLabels]
        ELSE [ok |-> TRUE, title |-> lines[1],
              summary |-> IF body_lines # <<>> THEN body_lines ELSE <<lines[1]>>,
              message |-> NoMsg]

\* The same reading, character by character.  An answer is a sequence of
\* characters; "title:" stands for the characters of "제목:", "[title]" and
\* "[summary]" for those of "[제목]" and "[요약문]".
TITLE_PREFIX == "title:"

\* str.splitlines()
RECURSIVE splitlines(_)
splitlines(text) ==
    IF text = <<>> THEN <<>>
    ELSE IF \E k \in 1..Len(text) : text[k] = "\n"
    THEN LET k == CHOOSE i \in 1..Len(text) :
                      text[i] = "\n" /\ \A j \in 1..(i - 1) : text[j] # "\n"
         IN  <<SubSeq(text, 1, k - 1)>> \o splitlines(SubSeq(text, k + 1, Len(text)))
    ELSE <<text>>

\* while lines and not lines[0].strip(): lines.pop(0)
keep_blank_lines(lines) == lines

RECURSIVE pop_blank_lines(_)
pop_blank_lines(lines) ==
    IF lines # <<>> /\ strip(Head(lines)) = <<>> THEN pop_blank_lines(Tail(lines)) ELSE lines

NotLabelOnly(ln) == strip(ln) \notin {<<label>> : label \in LabelLines}
NotBlank(ln) == strip(ln) # <<>>

\* What the loop over raw_lines appends for a line it keeps.
content_of_line(ln) ==
    LET stripped == strip(ln)
    IN  IF stripped # <<>> /\ Head(stripped) = TITLE_PREFIX THEN strip(Tail(stripped))
        ELSE stripped

RECURSIVE join_with_newline(_)
join_with_newline(lines) ==
    IF lines = <<>> THEN <<>>
    ELSE IF Len(lines) = 1 THEN Head(lines)
    ELSE Head(lines) \o <<"\n">> \o join_with_newline(Tail(lines))

\* The else branch of the try of summarise_with_gemini_with_title, from
\* full_text to the tuple it returns or the SummaryError it raises.
title_and_summary(full_text) ==
    LET split == splitlines(full_text)
        raw_lines == pop_blank_lines([k \in 1..Len(split) |-> rstrip(split[k])])
        kept == SelectSeq(raw_lines, NotLabelOnly)
        lines == pop_blank_lines([k \in 1..Len(kept) |-> content_of_line(kept[k])])
        title == strip(lines[1])
        rest == [k \in 1..(Len(lines) - 1) |-> strip(lines[k + 1])]
        body_lines == SelectSeq(rest, NotBlank)
    IN  IF raw_lines = <<>>
        THEN [ok |-> FALSE, title |-> <<>>, summary |-> <<>>, message |-> MsgEmptyTitleText]
        ELSE IF lines = <<>>
        THEN [ok |-> FALSE, title |-> <<>>, summary |-> <<>>, message |-> MsgOnlyLabels]
        ELSE [ok |-> TRUE, title |-> title,
              summary |-> IF body_lines # <<>> THEN strip(join_with_newline(body_lines))
                          ELSE title,
              message |-> NoMsg]

-----------------------------------------------------------------------------
(* The worker's composition of the text it hands to the summarise call *)

\* "\n\n댓글 전체 목록 (원댓글/대댓글 구조):\n"
COMMENT_HEADER == <<"\n", "\n", "#", "\n">>

RECURSIVE join_lines(_)
join_lines(lines) ==
    IF lines = <<>> THEN <<>>
    ELSE IF Len(lines) = 1 THEN Head(lines)
    ELSE Head(lines) \o <<"\n">> \o join_lines(Tail(lines))

\* body_text or "", then the comment block when there are comment lines
compose_summary_input(body_text, comment_lines) ==
    LET summary_input == IF body_text = NoneText THEN <<>> ELSE body_text
    IN  IF comment_lines # <<>>
        THEN summary_input \o COMMENT_HEADER \o join_lines(comment_lines)
        ELSE summary_input

-----------------------------------------------------------------------------
(* Inputs the callers pass *)

\* Texts and image lists the callers of the loop specification pass.
LoopTexts == {<<>>, <<"a", "b", "c">>}
LoopImagePaths == {<<"a.jpg">>}

\* Body texts of the text specification: every string of up to MaxLen characters
\* over TextChars, and None.
TextChars == {" ", "a", "b"}
BodyTexts == UNION {[1..n -> TextChars] : n \in 0..MaxLen} \cup {NoneText}
CommentLineLists == {<<>>, << <<"c">>, <<"d", "e">> >>}
ImagePathLists == {<<>>, <<"gone.jpg", "a.jpg">>}

-----------------------------------------------------------------------------
(* The database: rows of item, comment, item_asset and item_summary *)

ItemIds == 1..MaxItemId

EmptyMeta == [k \in {} |-> None]

\* a || b of jsonb: the union of the keys, b's value on a key both hold
jsonb_concat_left(a, b) ==
    [k \in DOMAIN a \cup DOMAIN b |-> IF k \in DOMAIN a THEN a[k] ELSE b[k]]

jsonb_concat(a, b) ==
    [k \in DOMAIN a \cup DOMAIN b |-> IF k \in DOMAIN b THEN b[k] ELSE a[k]]

ItemRow(source_id, external_id, url, title, author, content, metadata) ==
    [exists |-> TRUE, source_id |-> source_id, external_id |-> external_id, url |-> url,
     title |-> title, author |-> author, content |-> content, metadata |-> metadata]

NoRow ==
    [exists |-> FALSE, source_id |-> 0, external_id |-> "", url |-> "",
     title |-> "", author |-> "", content |-> NoneText, metadata |-> EmptyMeta]

\* A row of comment.  parent: the position, among the comment rows of the item,
\* of the row that parent_id references; 0 for NULL.
StoredComment(external_id, author, content, is_deleted) ==
    [external_id |-> external_id, author |-> author, content |-> content,
     is_deleted |-> is_deleted, parent |-> 0]

CommentRow(external_id, content) == StoredComment(external_id, "", content, FALSE)

SummaryRow(model_name, summary_text, summary_title) ==
    [model_name |-> model_name, summary_text |-> summary_text,
     summary_title |-> summary_title]

\* The rows of one item: its item row and the rows that reference it.
Rows(item, comment, asset, summary) ==
    [item |-> item, comment |-> comment, asset |-> asset, summary |-> summary]

NoRows == Rows(NoRow, <<>>, <<>>, {})

RowsOf(database, item_id) ==
    Rows(database.item[item_id], database.comment[item_id],
         database.asset[item_id], database.summary[item_id])

\* conn.commit() of a transaction that wrote rows of one item
commit(database, item_id, tx) ==
    [database EXCEPT !.item[item_id] = tx.item, !.comment[item_id] = tx.comment,
                     !.asset[item_id] = tx.asset, !.summary[item_id] = tx.summary]

\* A crawled post: the fields upsert_items reads, and _build_metadata(post).
Post(external_id, number, url, title, writer, metadata) ==
    [external_id |-> external_id, number |-> number, url |-> url, title |-> title,
     writer |-> writer, metadata |-> metadata]

\* post.external_id or post.number
post_external_id(post) ==
    IF post.external_id # "" THEN post.external_id ELSE post.number

\* COALESCE(a, b) over texts
coalesce(a, b) == IF a # NoneText THEN a ELSE b

\* The ids of the item rows that hold (source_id, external_id): the rows the
\* unique index uq_item_source_external makes an INSERT conflict with.
conflicting(database, source_id, external_id) ==
    {i \in ItemIds : /\ database.item[i].exists
                     /\ database.item[i].source_id = source_id
                     /\ database.item[i].external_id = external_id}

\* An upsert_items call and the row its statement returned.
Upsert(source_id, post, item_id, inserted) ==
    [source_id |-> source_id, post |-> post, item_id |-> item_id, inserted |-> inserted]

NoUpsert == Upsert(0, Post("", "", "", "", "", EmptyMeta), 0, FALSE)

\* The INSERT ... ON CONFLICT ... DO UPDATE ... RETURNING of upsert_items for one
\* post, and the commit.  The INSERT takes the next value of the id sequence
\* whether or not it conflicts.
upsert_item(database, source_id, post) ==
    LET external_id == post_external_id(post)
        existing == conflicting(database, source_id, external_id)
        new_id == database.item_id_seq + 1
    IN  IF existing = {}
        THEN [database |->
                 [database EXCEPT
                     !.item[new_id] = ItemRow(source_id, external_id, post.url, post.title,
                                              post.writer, NoneText, post.metadata),
                     !.item_id_seq = new_id],
              item_id |-> new_id, inserted |-> TRUE]
        ELSE LET id == CHOOSE i \in existing : TRUE
             IN  [database |->
                     [database EXCEPT
                         !.item[id].url = post.url,
                         !.item[id].title = post.title,
                         !.item[id].author = post.writer,
                         !.item[id].content = coalesce(@, NoneText),
                         !.item[id].metadata = jsonb_concat(@, post.metadata),
                         !.item_id_seq = new_id],
                  item_id |-> id, inserted |-> FALSE]

-----------------------------------------------------------------------------
(* The queue of a worker and the messages in it *)

\* A message body.  kind "undecodable": bytes that are no UTF-8; "invalid_json";
\* "json_array": valid JSON that is no object; "object": a JSON object whose
\* item_id is missing, a string, the boolean true, or an integer.
Body(kind, id_type, item_id) == [kind |-> kind, id_type |-> id_type, item_id |-> item_id]

\* json.loads(body.decode("utf-8")) raises UnicodeDecodeError or JSONDecodeError
decode_fails(body) == body.kind \in {"undecodable", "invalid_json"}

\* payload.get("item_id") raises AttributeError: the payload is no dict
payload_get_fails(body) == body.kind = "json_array"

\* not isinstance(item_id, int); bool is a subclass of int
not_int(body) == body.id_type \notin {"int", "bool"}

\* WHERE id = %s with a Python bool: bigint = boolean is no operator of PostgreSQL
lookup_fails(body) == body.id_type = "bool"

\* _fetch_item / _fetch_item_url: cur.fetchone() gives no row
item_missing_never(rows) == FALSE
item_missing(rows) == ~rows.item.exists

\* The state of the queue: the body of every message, the messages ready for
\* delivery, how often each was delivered and how each delivery was settled.
Broker(bodies, ready, deliveries, settled) ==
    [bodies |-> bodies, ready |-> ready, deliveries |-> deliveries, settled |-> settled]

\* basic_get: the message at the head of the queue is delivered
basic_get(b) ==
    [b EXCEPT !.ready = Tail(@), !.deliveries[Head(b.ready)] = @ + 1]

\* What consume_one sends for a handler that returned, raised
\* MessageHandlingError(requeue=False), or raised another exception.
settlement_always_ack(exit) == "ack"
settlement(exit) ==
    CASE exit = "returned" -> "ack"
      [] exit = "permanent_error" -> "nack"
      [] OTHER -> "nack_requeue"

\* basic_ack, basic_nack(requeue=False), basic_nack(requeue=True) when the
\* channel is open; on a closed channel nothing is sent, and the broker has put
\* the unacknowledged message back when the channel closed.
settle_dead_letter(b, msg, how, channel_open) ==
    IF ~channel_open THEN b
    ELSE [b EXCEPT !.settled[msg] = Append(@, how),
                   !.ready = IF how = "nack_requeue" /\ b.deliveries[msg] < 2
                             THEN <<msg>> \o @ ELSE @]

settle(b, msg, how, channel_open) ==
    IF ~channel_open THEN b
    ELSE [b EXCEPT !.settled[msg] = Append(@, how),
                   !.ready = IF how = "nack_requeue" THEN <<msg>> \o @ ELSE @]

\* The channel of a delivery closes before the delivery is settled: the broker
\* puts the message back into the queue.
channel_lost(b, msg) == [b EXCEPT !.ready = <<msg>> \o @]

-----------------------------------------------------------------------------
(* What a worker's handler computes between the delivery and the summarise call *)

\* A comment as the detail fetch hands it over.  "" stands for a key that is
\* missing or None; depth is metadata["depth"], 0 when that is missing.
CommentDict(external_id, author, content, parent_external_id, depth, is_deleted, score) ==
    [external_id |-> external_id, id |-> "", author |-> author, content |-> content,
     parent_external_id |-> parent_external_id, depth |-> depth,
     is_deleted |-> is_deleted, score |-> score]

RawComment(external_id, id, content) ==
    [CommentDict(external_id, "", content, "", 0, FALSE, "") EXCEPT !.id = id]

strip_id(value) == IF value \in {" ", "  "} THEN "" ELSE value

\* str(raw.get("external_id") or raw.get("id") or "").strip()
comment_external_id(raw) ==
    strip_id(IF raw.external_id # "" THEN raw.external_id ELSE raw.id)

\* The INSERT loop of replace_item_comments over the comments not yet handled.
\* ok = FALSE: an INSERT violated the unique index on (item_id, external_id).
RECURSIVE insert_comments(_, _)
insert_comments(comment_list, rows) ==
    IF comment_list = <<>> THEN [ok |-> TRUE, rows |-> rows]
    ELSE LET raw == Head(comment_list)
             external_id == comment_external_id(raw)
         IN  IF external_id = "" THEN insert_comments(Tail(comment_list), rows)
             ELSE IF \E k \in 1..Len(rows) : rows[k].external_id = external_id
             THEN [ok |-> FALSE, rows |-> rows]
             ELSE insert_comments(Tail(comment_list),
                                  Append(rows, StoredComment(external_id, raw.author,
                                                             raw.content, raw.is_deleted)))

HasId(raw) == comment_external_id(raw) # ""

\* inserted_ids.get(parent_external): the row inserted under that external id,
\* 0 for None
inserted_id(rows, external_id) ==
    IF \E k \in 1..Len(rows) : rows[k].external_id = external_id
    THEN CHOOSE k \in 1..Len(rows) : rows[k].external_id = external_id
    ELSE 0

\* The second loop of replace_item_comments, over pending: a row whose entry
\* declares a parent gets the id of the row inserted under the parent's
\* external id, if there is one.
link_parents_in_order(comment_list, rows) ==
    LET kept == SelectSeq(comment_list, HasId)
    IN  [k \in 1..Len(rows) |->
            LET parent_external == strip_id(kept[k].parent_external_id)
                earlier == SubSeq(rows, 1, k - 1)
            IN  IF parent_external = "" THEN rows[k]
                ELSE [rows[k] EXCEPT !.parent = inserted_id(earlier, parent_external)]]

link_parents(comment_list, rows) ==
    LET kept == SelectSeq(comment_list, HasId)
    IN  [k \in 1..Len(rows) |->
            LET parent_external == strip_id(kept[k].parent_external_id)
            IN  IF parent_external = "" THEN rows[k]
                ELSE [rows[k] EXCEPT !.parent = inserted_id(rows, parent_external)]]

\* replace_item_comments on the rows of the item, inside the caller's
\* transaction: DELETE, then the INSERT loop, then the parent loop.
replace_item_comments_append(tx, comments) ==
    LET inserted == insert_comments(comments, tx.comment)
    IN  [ok |-> inserted.ok, tx |-> [tx EXCEPT !.comment = inserted.rows]]

replace_item_comments(tx, comments) ==
    LET inserted == insert_comments(comments, <<>>)
    IN  [ok |-> inserted.ok,
         tx |-> [tx EXCEPT !.comment =
                    IF inserted.ok THEN link_parents(comments, inserted.rows)
                    ELSE inserted.rows]]

\* replace_item_assets: DELETE, then one INSERT of all assets; commits only
\* when there are assets.
replace_item_assets_keep(tx, assets) == tx

replace_item_assets(tx, assets) == [tx EXCEPT !.asset = assets]

\* delete_item: the item row goes, and with it (ON DELETE CASCADE) its
\* comments, assets and summaries.
delete_item(tx) == NoRows

\* Stand-ins for "[원댓글]", "[대댓글]" and the two ends of "[대댓글 → author]".
ROOT_LABEL == "[root]"
REPLY_LABEL == "[reply]"
REPLY_TO == "[reply>"
REPLY_TO_END == "]"

UNKNOWN_AUTHOR == "unknown"

HasContent(raw) == strip(raw.content) # <<>>

\* comment.get("author") or "unknown"
author_or_unknown(comment) == IF comment.author # "" THEN comment.author ELSE UNKNOWN_AUTHOR

id_to_author_with_content(comments, external_id) ==
    LET holders == {k \in 1..Len(comments) :
                       /\ strip(comments[k].content) # <<>>
                       /\ comments[k].external_id # ""
                       /\ comments[k].external_id = external_id}
    IN  IF holders = {} \/ external_id = "" THEN ""
        ELSE author_or_unknown(comments[CHOOSE k \in holders : \A j \in holders : j <= k])

\* id_to_author.get(external_id): the author of the last comment of the batch
\* that has this external_id, "" for None
id_to_author(comments, external_id) ==
    LET holders == {k \in 1..Len(comments) :
                       comments[k].external_id # "" /\ comments[k].external_id = external_id}
    IN  IF holders = {} \/ external_id = "" THEN ""
        ELSE author_or_unknown(comments[CHOOSE k \in holders : \A j \in holders : j <= k])

\* "  " * max(depth, 0)
RECURSIVE indent(_)
indent(depth) == IF depth <= 0 THEN <<>> ELSE <<" ", " ">> \o indent(depth - 1)

\* The label of a comment: by its depth, and for a reply by the author found
\* for its parent_external_id.
comment_label_unresolved(comments, comment) ==
    IF comment.depth <= 0 THEN <<ROOT_LABEL>> ELSE <<REPLY_LABEL>>

comment_label(comments, comment) ==
    LET parent_author == id_to_author(comments, comment.parent_external_id)
    IN  IF comment.depth <= 0 THEN <<ROOT_LABEL>>
        ELSE IF parent_author # "" THEN <<REPLY_TO, parent_author, REPLY_TO_END>>
        ELSE <<REPLY_LABEL>>

\* f" (+{score})" if the comment has a numeric score
score_text(comment) == IF comment.score = "" THEN <<>> ELSE <<" ", "(+", comment.score, ")">>

\* _format_comments_for_summary of the DCInside worker: one line per comment
\* with content, in the order of the list
format_comments_for_summary(comments) ==
    LET kept == SelectSeq(comments, HasContent)
    IN  [k \in 1..Len(kept) |->
            indent(kept[k].depth) \o comment_label(comments, kept[k])
            \o <<" ", author_or_unknown(kept[k]), ":", " ">> \o strip(kept[k].content)]

\* _comments_for_summary of the Reddit worker: the same with the score after
\* the author
comments_for_summary(comments) ==
    LET kept == SelectSeq(comments, HasContent)
    IN  [k \in 1..Len(kept) |->
            indent(kept[k].depth) \o comment_label(comments, kept[k])
            \o <<" ", author_or_unknown(kept[k])>> \o score_text(kept[k])
            \o <<":", " ">> \o strip(kept[k].content)]

\* The largest batch of comments a fetch returns.
MaxBatch == 3

T1_PREFIX == "t1_"
COMMENT_CNT_PREFIX == "comment_cnt_"

\* The ids a batch can hold without their prefix, and with the comment prefix
\* once.
BareIds == {ToString(k) : k \in 1..(MaxBatch + 1)} \cup {"", "z", "p"}

IdTails == BareIds \cup {T1_PREFIX \o tail : tail \in BareIds}

\* value.startswith(prefix)
startswith(value, prefix) == \E tail \in IdTails : value = prefix \o tail

\* One entry of post.metadata["comments"] as _parse_comment_listing wrote it;
\* is_dict is FALSE for an entry that is no dict.
RedditComment(name, id, parent_id, author, body, depth, is_deleted, score) ==
    [is_dict |-> TRUE, name |-> name, id |-> id, parent_id |-> parent_id,
     author |-> author, body |-> body, depth |-> depth, is_deleted |-> is_deleted,
     score |-> score]

NotADict == [RedditComment("", "", "", "", <<>>, 0, FALSE, "") EXCEPT !.is_dict = FALSE]

\* comment.get("name") or comment.get("id")
reddit_comment_id(comment) == IF comment.name # "" THEN comment.name ELSE comment.id

HasRedditId(comment) == comment.is_dict /\ reddit_comment_id(comment) # ""

\* comment_id with "t1_" in front unless it starts with it
with_prefix_always(comment_id) == T1_PREFIX \o comment_id

with_prefix(comment_id) ==
    IF startswith(comment_id, T1_PREFIX) THEN comment_id ELSE T1_PREFIX \o comment_id

\* parent_id if it is a str that starts with "t1_", else None
reddit_parent(parent_id) == IF startswith(parent_id, T1_PREFIX) THEN parent_id ELSE ""

DELETED_MARKERS == {<<"[deleted]">>, <<"[removed]">>}

reddit_is_deleted(comment) ==
    comment.is_deleted \/ lower(strip(comment.body)) \in DELETED_MARKERS

\* _normalise_reddit_comments
normalise_reddit_comments(raw_comments) ==
    LET kept == SelectSeq(raw_comments, HasRedditId)
    IN  [k \in 1..Len(kept) |->
            CommentDict(with_prefix(reddit_comment_id(kept[k])),
                        author_or_unknown(kept[k]), strip(kept[k].body),
                        reddit_parent(kept[k].parent_id), kept[k].depth,
                        reddit_is_deleted(kept[k]), kept[k].score)]

\* One <li> of ul.all-comment-lst.  data_no stands for the first of the
\* attributes data-no, data-cno, no and data-no2 that is set, data_parent for
\* data-parent or parent, nick for the text of a.nick, txt for that of p.txt.
CommentNode(classes, data_no, node_id, nick, txt, data_parent) ==
    [classes |-> classes, data_no |-> data_no, node_id |-> node_id,
     author |-> nick, txt |-> txt, data_parent |-> data_parent]

WriteClasses == {"comment_write", "comment_write_box"}
DelClasses == {"del", "comment-del"}
DELETED_WORD == <<"sakje">>

\* node_id.split("_")[-1] of an id that starts with "comment_cnt_", for the
\* ids with nothing but a number behind the prefix
comment_cnt(node_id) ==
    IF \E tail \in BareIds : node_id = COMMENT_CNT_PREFIX \o tail
    THEN CHOOSE tail \in BareIds : node_id = COMMENT_CNT_PREFIX \o tail
    ELSE ""

node_external_id(node) ==
    IF node.data_no # "" THEN node.data_no ELSE comment_cnt(node.node_id)

IsWriteForm(node) == \E k \in 1..Len(node.classes) : node.classes[k] \in WriteClasses

HasNodeId(node) == ~IsWriteForm(node) /\ node_external_id(node) # ""

dcinside_parent(data_parent) == IF data_parent \in {"0", ""} THEN "" ELSE data_parent

dcinside_is_deleted(node) ==
    \/ \E k \in 1..Len(node.classes) : node.classes[k] \in DelClasses
    \/ Contains(strip(node.txt), DELETED_WORD)

\* _fetch_dcinside_comments, from the nodes the page has
fetch_dcinside_comments_dropping(comment_nodes) ==
    LET kept == SelectSeq(comment_nodes, LAMBDA node : HasNodeId(node) /\ ~dcinside_is_deleted(node))
    IN  [k \in 1..Len(kept) |->
            LET parent_external == dcinside_parent(kept[k].data_parent)
            IN  CommentDict(node_external_id(kept[k]), author_or_unknown(kept[k]),
                            strip(kept[k].txt), parent_external,
                            IF parent_external # "" THEN 1 ELSE 0, FALSE, "")]

fetch_dcinside_comments(comment_nodes) ==
    LET kept == SelectSeq(comment_nodes, HasNodeId)
    IN  [k \in 1..Len(kept) |->
            LET parent_external == dcinside_parent(kept[k].data_parent)
            IN  CommentDict(node_external_id(kept[k]), author_or_unknown(kept[k]),
                            strip(kept[k].txt), parent_external,
                            IF parent_external # "" THEN 1 ELSE 0,
                            dcinside_is_deleted(kept[k]), "")]

\* Image URLs: "a.jpg" downloads, "x.jpg" fails to download, "v.mp4" is a video.
VideoUrls == {"v.mp4"}
Downloadable(url) == url \in {"a.jpg", "v.mp4"}

contains_video_url(urls) == \E k \in 1..Len(urls) : urls[k] \in VideoUrls

\* download_images: the local paths of the images that could be downloaded
download_images(image_urls) == SelectSeq(image_urls, Downloadable)

\* Stand-ins for the fixed lines of a composed Reddit post: the title, the
\* sentence "(텍스트 본문 없음 — 링크/미디어 게시물입니다.)", the line of author and
\* counts, the line of the URL, the headline of the comment block.
REDDIT_TITLE == <<"t">>
REDDIT_NO_TEXT == <<"(", "-", ")">>
REDDIT_META_LINE == <<"m">>
REDDIT_URL_LINE == <<"u">>
COMMENT_TITLE == <<"#">>

RECURSIVE join_paragraphs(_)
join_paragraphs(lines) ==
    IF lines = <<>> THEN <<>>
    ELSE IF Len(lines) = 1 THEN Head(lines)
    ELSE Head(lines) \o <<"\n", "\n">> \o join_paragraphs(Tail(lines))

\* compose_post_text of the Reddit worker
compose_post_text(selftext, comment_lines) ==
    LET body == IF strip(selftext) # <<>> THEN strip(selftext) ELSE REDDIT_NO_TEXT
        head == <<REDDIT_TITLE, body, REDDIT_META_LINE, REDDIT_URL_LINE>>
    IN  join_paragraphs(
            IF comment_lines # <<>>
            THEN Append(head, join_lines(<<COMMENT_TITLE>> \o comment_lines))
            ELSE head)

\* summary_input.splitlines()[0].strip()
RECURSIVE first_line(_)
first_line(text) ==
    IF text = <<>> \/ Head(text) = "\n" THEN <<>> ELSE <<Head(text)>> \o first_line(Tail(text))

\* "요약"
DEFAULT_TITLE == <<"S">>

\* The except branch of the handler: the excerpt that stands in for the summary.
fallback_summary_whole(summary_input, max_text_length) ==
    IF summary_input # <<>> THEN summary_input ELSE NoneText

fallback_summary(summary_input, max_text_length) ==
    IF summary_input # <<>> THEN SlicePrefix(summary_input, max_text_length) ELSE NoneText

fallback_title(summary_input) ==
    IF summary_input = <<>> THEN NoneText
    ELSE IF strip(first_line(summary_input)) # <<>>
    THEN SlicePrefix(strip(first_line(summary_input)), TITLE_LIMIT)
    ELSE DEFAULT_TITLE

\* GEMINI_MODEL_PRIORITIES[0]
last_listed_model(model_priorities) == model_priorities[Len(model_priorities)]

primary_model(model_priorities) == model_priorities[1]

\* The error string of a job that got no usable detail.
MsgDetailFetchFailed == Msg("Detail fetch failed", None, 0, <<>>)
MsgPostNotFound == Msg("Reddit post not found", None, 0, <<>>)
MsgSkippedVideo == Msg("Skipped video post", None, 0, <<>>)

update_item_with_summary_insert(tx, summary, raw_text, image_count, model_name, summary_title, last_error, clock) ==
    LET metadata_patch ==
            [k \in {"raw_text", "image_count", "summary_generated_at", "summary_error"} |->
                CASE k = "raw_text" -> raw_text
                  [] k = "image_count" -> image_count
                  [] k = "summary_generated_at" -> clock
                  [] OTHER -> last_error]
        row == SummaryRow(model_name, summary,
                          IF summary_title \in {NoneText, <<>>} THEN <<"{", "}">>
                          ELSE summary_title)
        updated ==
            IF tx.item.exists
            THEN [tx EXCEPT !.item.content = raw_text,
                            !.item.metadata = jsonb_concat(@, metadata_patch)]
            ELSE tx
    IN  IF summary \in {NoneText, <<>>} THEN updated
        ELSE [updated EXCEPT !.summary = @ \cup {row}]

update_item_with_summary_keeping_content(tx, summary, raw_text, image_count, model_name, summary_title, last_error, clock) ==
    LET metadata_patch ==
            [k \in {"image_count", "summary_generated_at", "summary_error"} |->
                CASE k = "image_count" -> image_count
                  [] k = "summary_generated_at" -> clock
                  [] OTHER -> last_error]
        row == SummaryRow(model_name, summary,
                          IF summary_title \in {NoneText, <<>>} THEN <<"{", "}">>
                          ELSE summary_title)
        updated ==
            IF tx.item.exists
            THEN [tx EXCEPT !.item.content = IF raw_text = <<>> THEN @ ELSE raw_text,
                            !.item.metadata = jsonb_concat(@, metadata_patch)]
            ELSE tx
    IN  IF summary \in {NoneText, <<>>} THEN updated
        ELSE [updated EXCEPT !.summary =
                 {r \in @ : r.model_name # model_name} \cup {row}]

\* update_item_with_summary on the rows of the item, up to its commit
update_item_with_summary(tx, summary, raw_text, image_count, model_name, summary_title, last_error, clock) ==
    LET metadata_patch ==
            [k \in {"raw_text", "image_count", "summary_generated_at", "summary_error"} |->
                CASE k = "raw_text" -> raw_text
                  [] k = "image_count" -> image_count
                  [] k = "summary_generated_at" -> clock
                  [] OTHER -> last_error]
        row == SummaryRow(model_name, summary,
                          IF summary_title \in {NoneText, <<>>} THEN <<"{", "}">>
                          ELSE summary_title)
        updated ==
            IF tx.item.exists
            THEN [tx EXCEPT !.item.content = raw_text,
                            !.item.metadata = jsonb_concat(@, metadata_patch)]
            ELSE tx
    IN  IF summary \in {NoneText, <<>>} THEN updated
        ELSE [updated EXCEPT !.summary =
                 {r \in @ : r.model_name # model_name} \cup {row}]

-----------------------------------------------------------------------------
(* The state of a worker's handler *)

\* What the detail fetch of a job gives: fetch_post_body raises
\* requests.RequestException ("request_error"), raises another exception while
\* it parses the page ("parse_error": urljoin raises ValueError on an image
\* URL like "//[x"), or returns; fetch_reddit_post_by_url raises ("error"),
\* returns None ("none") or returns the post.
Detail(kind, body_text, image_urls, comments, is_video) ==
    [kind |-> kind, body_text |-> body_text, image_urls |-> image_urls,
     comments |-> comments, is_video |-> is_video]

NoDetail == Detail("none", <<>>, <<>>, <<>>, FALSE)

\* The delivery a thread holds (msg, channel_open), the handler's local
\* variables, the rows of the item as its connection sees them (tx), and, once
\* the handler is over, how it ended (exit) and how consume_one settled the
\* delivery (outcome).
\* No batch of comments at hand.
NoBatch ==
    [phase |-> "none", platform |-> "none", raw |-> <<>>, comments |-> <<>>,
     ok |-> TRUE, tx |-> NoRows, lines |-> <<>>]

\* The row of the source of a store script, and a row of crawl_run_log.
Source(exists, is_active) == [id |-> 1, exists |-> exists, is_active |-> is_active]
LogRow(queued_count, fetched_count, filtered_count) ==
    [queued_count |-> queued_count, fetched_count |-> fetched_count,
     filtered_count |-> filtered_count]

\* No store script at work.
NoProducer ==
    [platform |-> "none", source |-> Source(FALSE, FALSE), runs |-> 0, created |-> FALSE,
     listing |-> <<>>, posts |-> <<>>, item_ids |-> <<>>, published |-> <<>>,
     failed |-> FALSE, logged |-> FALSE, log |-> <<>>]

\* No post before the filter of a store script.
NoSieve ==
    [phase |-> "none", platform |-> "none", clock |-> 0, published |-> 0, stamped |-> FALSE,
     admissible |-> FALSE, min_age |-> 0, max_age |-> 0, passed |-> FALSE]

\* A row of digest_subscription; next_run_at is a point in time, in ticks of
\* the clock of the database.
Subscription(id, channel_id, interval_minutes, is_active, next_run_at) ==
    [id |-> id, channel_id |-> channel_id, interval_minutes |-> interval_minutes,
     is_active |-> is_active, next_run_at |-> next_run_at]

\* What the auto-digest task did last for a subscription.
TickRecord(channel_id, outcome, updated) ==
    [channel_id |-> channel_id, outcome |-> outcome, updated |-> updated]

\* No bot: an empty subscription table and no tick of the auto-digest task.
NoDigest ==
    [phase |-> "none", table |-> <<>>, clock |-> 0, default_channel |-> FALSE,
     subs |-> <<>>, mode |-> "none", query_ok |-> TRUE, rows_seen |-> 0, selected |-> 0,
     last |-> TickRecord("", "none", FALSE)]

\* A row of the source table.
SourceRow(id, code, name, is_active) ==
    [id |-> id, code |-> code, name |-> name, is_active |-> is_active]

NoSourceRow == SourceRow(0, "", "", FALSE)

\* A call of get_or_create_source: where it stands, the name in its config,
\* the row its INSERT wrote and has not committed, and what it returned.
Call(at, name, pending, got, created) ==
    [at |-> at, name |-> name, pending |-> pending, got |-> got, created |-> created]

Callers == {1, 2}

\* No call of get_or_create_source.
NoRegistry ==
    [phase |-> "none", table |-> {}, id_seq |-> 0, seeded |-> FALSE, activated |-> FALSE,
     call |-> [p \in Callers |-> Call("none", "", NoSourceRow, NoSourceRow, FALSE)]]

\* A job message of the pipeline and what the worker found when it took one.
Job(item_id, run) == [item_id |-> item_id, run |-> run]
Taken(item_id, found, was_deleted, external_id, had_summary, did) ==
    [item_id |-> item_id, found |-> found, was_deleted |-> was_deleted,
     external_id |-> external_id, had_summary |-> had_summary, did |-> did]

\* No store script and no worker.  jobs, stranded, deleted and taken keep what
\* happened: the messages published, the items a failed publish left without
\* one, the items deleted as video, and what the worker found.
NoPipeline ==
    [phase |-> "none", platform |-> "none", runs |-> 0, posts |-> <<>>, item_ids |-> <<>>,
     pending |-> <<>>, failed |-> FALSE, stranded |-> {},
     queue |-> <<>>, jobs |-> <<>>, deleted |-> {}, taken |-> <<>>]

\* No answer at hand.
NoAnswer ==
    [phase |-> "none", full_text |-> <<>>, ok |-> TRUE, title |-> <<>>, summary |-> <<>>,
     message |-> NoMsg]

IdleJob ==
    [phase |-> "idle", msg |-> 0, channel_open |-> FALSE, item_id |-> 0,
     detail |-> NoDetail, body_text |-> <<>>, comment_lines |-> <<>>,
     summary_input |-> <<>>, image_paths |-> <<>>, tx |-> NoRows,
     exit |-> "none", outcome |-> "none", last_error |-> NoMsg, model_used |-> None]

NoBroker == Broker(<<>>, <<>>, <<>>, <<>>)

NoDatabase ==
    [item |-> [i \in ItemIds |-> NoRow], comment |-> [i \in ItemIds |-> <<>>],
     asset |-> [i \in ItemIds |-> <<>>], summary |-> [i \in ItemIds |-> {}],
     item_id_seq |-> 0]

-----------------------------------------------------------------------------
(* State of a call *)

Impls == {"client", "client_title", "root"}

IdleFrame ==
    [text |-> <<>>, image_paths |-> <<>>,
     text_to_use |-> <<>>, image_parts |-> <<>>, available_models |-> <<>>, i |-> 0,
     errors |-> <<>>, last_attempted_model |-> None, clock |-> 0]

\* The frame of a call that raised before its model loop.
EarlyFrame(text, image_paths) ==
    [IdleFrame EXCEPT !.text = text, !.image_paths = image_paths]

NoResult ==
    [status |-> "none", summary |-> <<>>, title |-> "", model_used |-> None,
     message |-> NoMsg, last_model |-> None]

Returned(summary, title, model) ==
    [status |-> "returned", summary |-> summary, title |-> title, model_used |-> model,
     message |-> NoMsg, last_model |-> None]

Raised(message, last_model) ==
    [status |-> "raised", summary |-> <<>>, title |-> "", model_used |-> None,
     message |-> message, last_model |-> last_model]

NoResponse == Response("none", 0, FALSE, <<>>, <<>>)

\* One entry of a call's trace: the cooldown test of a model ("skip", "send")
\* or the end of its request ("return", "quota", "error") with the response.
Event(model, what, resp) == [model |-> model, what |-> what, resp |-> resp]

current_model(t) == frame[t].available_models[frame[t].i]

\* The configured duration without the floor.
cooldown_duration_unfloored(cooldown_seconds) == cooldown_seconds

\* max(config.cooldown_seconds, 30)
cooldown_duration(cooldown_seconds) == Max2(cooldown_seconds, COOLDOWN_FLOOR)

\* Every failure handled as a quota error.
after_failure_always_cooldown(table, model, out, cooldown_seconds, clock) ==
    set_cooldown(table, model, cooldown_duration(cooldown_seconds), clock)

\* The cooldown table after the two except branches of the loop: only
\* _ModelQuotaError sets a cooldown.
after_failure(table, model, out, cooldown_seconds, clock) ==
    IF out.tag = "quota"
    THEN set_cooldown(table, model, cooldown_duration(cooldown_seconds), clock)
    ELSE table

\* The key test that never fires.
missing_api_key_never(api_key) == FALSE

\* The window test with the comparison turned round.
in_cooldown_inverted(cooldown_ts, clock) == cooldown_ts > 0 /\ cooldown_ts < clock

\* The window test without the clock: an entry never runs out.
in_cooldown_forever(cooldown_ts, clock) == cooldown_ts > 0

\* The loop's test "this model is inside its cooldown window".  client.py reads
\* the clock at every test, gemini_summary.py once before the loop.
in_cooldown(cooldown_ts, clock) == cooldown_ts > 0 /\ cooldown_ts > clock

loop_clock(t) == IF impl = "root" THEN frame[t].clock ELSE now

\* The last step of a call: it raises message tagged last_model.
Raise(t, message, last_model) ==
    /\ pc' = [pc EXCEPT ![t] = "done"]
    /\ result' = [result EXCEPT ![t] = Raised(message, last_model)]

\* if not config.api_key
missing_api_key(api_key) == api_key = ""

\* The early part of summarise_with_gemini / summarise_with_gemini_with_title,
\* up to the model loop.
begin_call(t, text, image_paths) ==
    LET gated == gate_text(text, image_paths)
        available == available_models(config.model_priorities)
    IN  /\ pc[t] = "idle"
        /\ trace' = [trace EXCEPT ![t] = <<>>]
        /\ UNCHANGED <<now, MODEL_COOLDOWNS, config, impl>>
        /\ IF missing_api_key(config.api_key)
           THEN /\ Raise(t, MsgMissingKey, None)
                /\ frame' = [frame EXCEPT ![t] = EarlyFrame(text, image_paths)]
           ELSE IF gated = NoneText
           THEN /\ Raise(t, MsgNoContent, None)
                /\ frame' = [frame EXCEPT ![t] = EarlyFrame(text, image_paths)]
           ELSE IF available = <<>>
           THEN /\ Raise(t, MsgNoModels, None)
                /\ frame' = [frame EXCEPT ![t] = EarlyFrame(text, image_paths)]
           ELSE /\ pc' = [pc EXCEPT ![t] = "loop"]
                /\ result' = [result EXCEPT ![t] = NoResult]
                /\ frame' = [frame EXCEPT ![t] =
                      [text |-> text,
                       image_paths |-> image_paths,
                       text_to_use |-> truncate_text(gated, config.max_text_length),
                       image_parts |-> build_image_parts(image_paths, config.image_limit, 0),
                       available_models |-> available,
                       i |-> 1,
                       errors |-> <<>>,
                       last_attempted_model |-> None,
                       clock |-> IF impl = "root" THEN now ELSE 0]]

-----------------------------------------------------------------------------
(* Actions *)

\* A caller in the process calls the summarise function.
summarise(t) ==
    /\ \E text \in LoopTexts, image_paths \in LoopImagePaths :
          begin_call(t, text, image_paths)
    /\ UNCHANGED workerVars

\* The worker composes its document and calls the summarise function.
process_message(t) ==
    /\ \E body_text \in BodyTexts, comment_lines \in CommentLineLists,
          image_paths \in ImagePathLists :
          /\ begin_call(t, compose_summary_input(body_text, comment_lines), image_paths)
          /\ job' = [job EXCEPT ![t] = [IdleJob EXCEPT !.body_text = body_text,
                                                       !.comment_lines = comment_lines]]
    /\ UNCHANGED <<worker, broker, site, db, stored, batch, producer, answer, sieve, digest, registry, pipeline>>

\* Loop iteration for a model inside its cooldown window: continue.
SkipModel(t) ==
    /\ pc[t] = "loop"
    /\ frame[t].i <= Len(frame[t].available_models)
    /\ in_cooldown(cooldown_until(MODEL_COOLDOWNS, current_model(t)), loop_clock(t))
    /\ frame' = [frame EXCEPT ![t].i = @ + 1]
    /\ trace' = [trace EXCEPT ![t] = Append(@, Event(current_model(t), "skip", NoResponse))]
    /\ UNCHANGED <<now, MODEL_COOLDOWNS, config, impl, pc, result>>
    /\ UNCHANGED workerVars

\* Loop iteration for a model outside its cooldown window: the request goes out.
SendRequest(t) ==
    /\ pc[t] = "loop"
    /\ frame[t].i <= Len(frame[t].available_models)
    /\ ~in_cooldown(cooldown_until(MODEL_COOLDOWNS, current_model(t)), loop_clock(t))
    /\ frame' = [frame EXCEPT ![t].last_attempted_model = current_model(t)]
    /\ pc' = [pc EXCEPT ![t] = "wait"]
    /\ trace' = [trace EXCEPT ![t] = Append(@, Event(current_model(t), "send", NoResponse))]
    /\ UNCHANGED <<now, MODEL_COOLDOWNS, config, impl, result>>
    /\ UNCHANGED workerVars

\* What the API can answer in this process.
ApiResponses == IF worker = "none" THEN Responses ELSE WorkerResponses

\* The request came back usable: the else branch of the try.
ModelSucceeds(t) ==
    /\ pc[t] = "wait"
    /\ \E resp \in ApiResponses :
        LET out == invoke_gemini(current_model(t), resp)
            parsed == parse_title_summary(out.summary)
        IN  /\ out.tag = "return"
            /\ MODEL_COOLDOWNS' = clear_cooldown(MODEL_COOLDOWNS, current_model(t))
            /\ pc' = [pc EXCEPT ![t] = "done"]
            /\ result' = [result EXCEPT ![t] =
                  IF impl # "client_title" THEN Returned(out.summary, "", current_model(t))
                  ELSE IF parsed.ok
                  THEN Returned(parsed.summary, parsed.title, current_model(t))
                  ELSE Raised(parsed.message, current_model(t))]
            /\ trace' = [trace EXCEPT ![t] = Append(@, Event(current_model(t), "return", resp))]
    /\ UNCHANGED <<now, config, impl, frame>>
    /\ UNCHANGED workerVars

\* The request raised _ModelQuotaError: cooldown, record the error, continue.
ModelQuotaError(t) ==
    /\ pc[t] = "wait"
    /\ \E resp \in ApiResponses :
        LET out == invoke_gemini(current_model(t), resp)
        IN  /\ out.tag = "quota"
            /\ MODEL_COOLDOWNS' =
                  after_failure(MODEL_COOLDOWNS, current_model(t), out,
                                config.cooldown_seconds, now)
            /\ frame' = [frame EXCEPT ![t].errors = Append(@, out.message),
                                      ![t].i = @ + 1]
            /\ trace' = [trace EXCEPT ![t] = Append(@, Event(current_model(t), "quota", resp))]
    /\ pc' = [pc EXCEPT ![t] = "loop"]
    /\ UNCHANGED <<now, config, impl, result>>
    /\ UNCHANGED workerVars

\* The request raised another SummaryError: record the error, continue.
ModelFails(t) ==
    /\ pc[t] = "wait"
    /\ \E resp \in ApiResponses :
        LET out == invoke_gemini(current_model(t), resp)
        IN  /\ out.tag = "error"
            /\ frame' = [frame EXCEPT ![t].errors = Append(@, out.message),
                                      ![t].i = @ + 1]
            /\ trace' = [trace EXCEPT ![t] = Append(@, Event(current_model(t), "error", resp))]
            /\ MODEL_COOLDOWNS' =
                  after_failure(MODEL_COOLDOWNS, current_model(t), out,
                                config.cooldown_seconds, now)
    /\ pc' = [pc EXCEPT ![t] = "loop"]
    /\ UNCHANGED <<now, config, impl, result>>
    /\ UNCHANGED workerVars

\* The first recorded error instead of the last.
exhausted_error_first(errors, last_attempted_model) ==
    IF errors # <<>>
    THEN Raised(errors[1], last_attempted_model)
    ELSE Raised(MsgAllSkipped, last_attempted_model)

\* What the call raises after the loop.
exhausted_error(errors, last_attempted_model) ==
    IF errors # <<>>
    THEN Raised(errors[Len(errors)], last_attempted_model)
    ELSE Raised(MsgAllSkipped, last_attempted_model)

\* The loop ran off the end of the model list.
AllModelsExhausted(t) ==
    /\ pc[t] = "loop"
    /\ frame[t].i > Len(frame[t].available_models)
    /\ pc' = [pc EXCEPT ![t] = "done"]
    /\ result' = [result EXCEPT ![t] =
          exhausted_error(frame[t].errors, frame[t].last_attempted_model)]
    /\ UNCHANGED <<now, MODEL_COOLDOWNS, config, impl, frame, trace>>
    /\ UNCHANGED workerVars

\* The call is over: the caller has its return value or its exception, and the
\* call's local variables are gone.
CallEnds(t) ==
    /\ pc[t] = "done"
    /\ pc' = [pc EXCEPT ![t] = "idle"]
    /\ frame' = [frame EXCEPT ![t] = IdleFrame]
    /\ result' = [result EXCEPT ![t] = NoResult]
    /\ trace' = [trace EXCEPT ![t] = <<>>]
    /\ job' = [job EXCEPT ![t] = IdleJob]
    /\ UNCHANGED <<now, MODEL_COOLDOWNS, config, impl, worker, broker, site, db, stored, batch, producer, answer, sieve, digest, registry, pipeline>>

\* Time passes.
Tick ==
    /\ now + Step <= T0 + MaxTicks * Step
    /\ now' = now + Step
    /\ UNCHANGED <<MODEL_COOLDOWNS, config, impl, pc, frame, result, trace>>
    /\ UNCHANGED workerVars

-----------------------------------------------------------------------------
(* Configurations and specifications *)

\* Model lists of up to two entries: empty, blank names, one model, two models,
\* one model listed twice.
ModelLists ==
    {<<>>, <<BlankName>>, <<"M1">>, <<BlankName, "M2">>, <<"M1", BlankName>>,
     <<"M1", "M2">>, <<"M1", "M1">>}

GeminiConfig(api_key, model_priorities, max_text_length, cooldown_seconds) ==
    [api_key |-> api_key, model_priorities |-> model_priorities,
     max_text_length |-> max_text_length, cooldown_seconds |-> cooldown_seconds,
     image_limit |-> DEFAULT_IMAGE_LIMIT]

LoopConfigs ==
    {GeminiConfig(k, l, 2, c) : k \in {"", "key"}, l \in ModelLists, c \in {-5, 0, 45}}

ConcConfigs == {GeminiConfig("key", <<"M1">>, 2, c) : c \in {0, 45}}

TextConfigs ==
    {GeminiConfig("key", <<"M1">>, n, 45) : n \in (-1)..(MaxLen + 1)}
    \cup {GeminiConfig("", l, n, 45) : l \in ModelLists, n \in (-1)..(MaxLen + 1)}

InitWith(configs, impls) ==
    /\ now = T0
    /\ MODEL_COOLDOWNS = <<>>
    /\ config \in configs
    /\ impl \in impls
    /\ pc = [t \in Threads |-> "idle"]
    /\ frame = [t \in Threads |-> IdleFrame]
    /\ result = [t \in Threads |-> NoResult]
    /\ trace = [t \in Threads |-> <<>>]
    /\ worker = "none"
    /\ broker = NoBroker
    /\ site = [i \in ItemIds |-> NoDetail]
    /\ db = NoDatabase
    /\ stored = NoUpsert
    /\ batch = NoBatch
    /\ producer = NoProducer
    /\ answer = NoAnswer
    /\ sieve = NoSieve
    /\ digest = NoDigest
    /\ registry = NoRegistry
    /\ pipeline = NoPipeline
    /\ job = [t \in Threads |-> IdleJob]

step(t) ==
    \/ SkipModel(t)
    \/ SendRequest(t)
    \/ ModelSucceeds(t)
    \/ ModelQuotaError(t)
    \/ ModelFails(t)
    \/ AllModelsExhausted(t)
    \/ CallEnds(t)

\* One thread calls summarise again and again.
Init == InitWith(LoopConfigs, Impls)
Next == Tick \/ \E t \in MainThread : summarise(t) \/ step(t)
Spec == Init /\ [][Next]_vars

\* Two threads of the process call summarise concurrently.
InitConc == InitWith(ConcConfigs, {"client"})
NextConc == Tick \/ \E t \in Threads : summarise(t) \/ step(t)
SpecConc == InitConc /\ [][NextConc]_vars

\* The worker composes documents of every shape and summarises them.
InitText == InitWith(TextConfigs, {"client_title"})
NextText == \E t \in MainThread : process_message(t) \/ step(t)
SpecText == InitText /\ [][NextText]_vars

-----------------------------------------------------------------------------
(* A worker: consume_one around process_message *)

\* Comments a detail fetch can hand over: none; two comments; a comment whose
\* external_id is blank and one without content that has an id only; the same
\* external_id twice.
FetchedComments ==
    {<<>>,
     <<RawComment("c1", "", <<"c">>), RawComment("c2", "", <<"d", "e">>)>>,
     <<RawComment("  ", "", <<"c">>), RawComment("", "c3", <<" ">>)>>,
     <<RawComment("c1", "", <<"c">>), RawComment("c1", "", <<"c">>)>>}

FetchedBodyTexts == {<<>>, <<"a", "b", "c">>}
ImageUrlLists == {<<>>, <<"x.jpg", "a.jpg">>, <<"v.mp4">>}

FetchedPosts(flags) ==
    {Detail("ok", body_text, image_urls, comments, is_video) :
        body_text \in FetchedBodyTexts, image_urls \in ImageUrlLists,
        comments \in FetchedComments, is_video \in flags}

\* What the detail fetch of worker w can give.
Details(w) ==
    IF w = "reddit"
    THEN {Detail("error", <<>>, <<>>, <<>>, FALSE), NoDetail} \cup FetchedPosts(BOOLEAN)
    ELSE {Detail("request_error", <<>>, <<>>, <<>>, FALSE),
          Detail("parse_error", <<>>, <<>>, <<>>, FALSE)} \cup FetchedPosts({FALSE})

\* How far process_message gets before the summarise call.  exit
\* "permanent_error": it raised MessageHandlingError(requeue=False);
\* "exception": another exception escaped; "returned": it returned;
\* "continue": it goes on to the summarise call.
\* tx: the rows of the item as the connection sees them; committed: the rows
\* as committed.
JobStart(exit, detail, tx, committed, comment_lines, summary_input, image_paths, last_error) ==
    [exit |-> exit, detail |-> detail, tx |-> tx, committed |-> committed,
     comment_lines |-> comment_lines, summary_input |-> summary_input,
     image_paths |-> image_paths, last_error |-> last_error]

process_message_start(body, database, pages, w, cfg, clock) ==
    LET rows == RowsOf(database, body.item_id)
        detail == pages[body.item_id]
        primary == primary_model(cfg.model_priorities)
        marked(message) ==
            update_item_with_summary(rows, NoneText, <<>>, 0, primary, NoneText,
                                     message, clock)
        replaced == replace_item_comments(rows, detail.comments)
        comment_lines == IF w = "reddit" THEN comments_for_summary(detail.comments)
                         ELSE format_comments_for_summary(detail.comments)
        summary_input ==
            IF w = "reddit" THEN compose_post_text(detail.body_text, comment_lines)
            ELSE compose_summary_input(detail.body_text, comment_lines)
        assets == download_images(detail.image_urls)
        with_assets == replace_item_assets(replaced.tx, assets)
        Unwritten(exit) == JobStart(exit, NoDetail, NoRows, NoRows, <<>>, <<>>, <<>>, NoMsg)
        NotFound == JobStart("permanent_error", NoDetail, rows, rows, <<>>, <<>>, <<>>, NoMsg)
        RolledBack(exit) == JobStart(exit, detail, rows, rows, <<>>, <<>>, <<>>, NoMsg)
        Handled(tx, message) ==
            JobStart("returned", detail, tx, tx, <<>>, <<>>, <<>>, message)
    IN  IF decode_fails(body) THEN Unwritten("permanent_error")
        ELSE IF payload_get_fails(body) THEN Unwritten("exception")
        ELSE IF not_int(body) THEN Unwritten("permanent_error")
        ELSE IF lookup_fails(body) THEN Unwritten("exception")
        ELSE IF item_missing(rows) THEN NotFound
        ELSE IF detail.kind \in {"request_error", "error"}
        THEN Handled(marked(MsgDetailFetchFailed), MsgDetailFetchFailed)
        ELSE IF detail.kind = "parse_error" THEN RolledBack("exception")
        ELSE IF detail.kind = "none"
        THEN Handled(marked(MsgPostNotFound), MsgPostNotFound)
        ELSE IF w = "reddit" /\ (detail.is_video \/ contains_video_url(detail.image_urls))
        THEN Handled(marked(MsgSkippedVideo), MsgSkippedVideo)
        ELSE IF contains_video_url(detail.image_urls)
        THEN Handled(delete_item(rows), NoMsg)
        ELSE IF ~replaced.ok THEN RolledBack("exception")
        ELSE JobStart("continue", detail, with_assets,
                      IF assets # <<>> THEN with_assets ELSE rows,
                      comment_lines, summary_input, assets, NoMsg)

\* A trigger request arrives: consume_one takes one message and runs
\* process_message on it, as far as the summarise call.  A handler that is over
\* before that call is settled in the same step.
consume_one(t) ==
    /\ job[t].phase # "running"
    /\ pc[t] = "idle"
    /\ IF broker.ready = <<>>
       THEN /\ job' = [job EXCEPT ![t] = [IdleJob EXCEPT !.phase = "finished",
                                                        !.outcome = "queue_empty"]]
            /\ UNCHANGED <<now, MODEL_COOLDOWNS, config, impl, pc, frame, result, trace,
                           worker, broker, site, db, stored, batch, producer, answer, sieve, digest, registry, pipeline>>
       ELSE /\ broker.deliveries[Head(broker.ready)] < MaxDeliveries
            /\ \E channel_open \in BOOLEAN :
                 LET msg == Head(broker.ready)
                     body == broker.bodies[msg]
                     start == process_message_start(body, db, site, worker, config, now)
                     started ==
                         [IdleJob EXCEPT !.msg = msg, !.item_id = body.item_id,
                                         !.detail = start.detail,
                                         !.body_text = start.detail.body_text,
                                         !.comment_lines = start.comment_lines,
                                         !.summary_input = start.summary_input,
                                         !.image_paths = start.image_paths,
                                         !.tx = start.tx,
                                         !.last_error = start.last_error]
                 IN  IF start.exit = "continue"
                     THEN /\ begin_call(t, start.summary_input, start.image_paths)
                          /\ job' = [job EXCEPT ![t] =
                                [started EXCEPT !.phase = "running", !.channel_open = TRUE]]
                          /\ broker' = basic_get(broker)
                          /\ db' = commit(db, body.item_id, start.committed)
                          /\ UNCHANGED <<worker, site, stored, batch, producer, answer, sieve, digest, registry, pipeline>>
                     ELSE /\ job' = [job EXCEPT ![t] =
                                [started EXCEPT
                                    !.phase = "finished",
                                    !.channel_open = channel_open,
                                    !.exit = start.exit,
                                    !.outcome = IF channel_open THEN settlement(start.exit)
                                                ELSE "unsettled"]]
                          /\ broker' = IF channel_open
                                       THEN settle(basic_get(broker), msg,
                                                   settlement(start.exit), TRUE)
                                       ELSE channel_lost(basic_get(broker), msg)
                          /\ db' = IF start.committed = NoRows /\ start.exit # "returned"
                                   THEN db
                                   ELSE commit(db, body.item_id, start.committed)
                          /\ UNCHANGED <<now, MODEL_COOLDOWNS, config, impl, pc, frame,
                                         result, trace, worker, site, stored, batch, producer, answer, sieve, digest, registry, pipeline>>

\* The channel of a running handler's delivery closes: the broker puts the
\* message back into the queue.
channel_closes(t) ==
    /\ job[t].phase = "running"
    /\ job[t].channel_open
    /\ job' = [job EXCEPT ![t].channel_open = FALSE]
    /\ broker' = channel_lost(broker, job[t].msg)
    /\ UNCHANGED <<now, MODEL_COOLDOWNS, config, impl, pc, frame, result, trace,
                   worker, site, db, stored, batch, producer, answer, sieve, digest, registry, pipeline>>

\* The summarise call is over: process_message takes its result or builds the
\* fallback, writes the item and its summary, commits and returns; consume_one
\* acknowledges the message.
handler_returns(t) ==
    /\ job[t].phase = "running"
    /\ pc[t] = "done"
    /\ LET failed == result[t].status = "raised"
           summary == IF failed
                      THEN fallback_summary(job[t].summary_input, config.max_text_length)
                      ELSE result[t].summary
           summary_title == IF failed THEN fallback_title(job[t].summary_input)
                            ELSE <<result[t].title>>
           model_used == IF ~failed THEN result[t].model_used
                         ELSE IF result[t].last_model # None THEN result[t].last_model
                         ELSE primary_model(config.model_priorities)
           last_error == IF failed THEN result[t].message ELSE NoMsg
           tx == update_item_with_summary(job[t].tx, summary, job[t].summary_input,
                                          Len(job[t].image_paths), model_used,
                                          summary_title, last_error, now)
       IN  /\ db' = commit(db, job[t].item_id, tx)
           /\ broker' = settle(broker, job[t].msg, settlement("returned"),
                               job[t].channel_open)
           /\ job' = [job EXCEPT ![t] =
                 [@ EXCEPT !.phase = "finished", !.tx = tx, !.exit = "returned",
                           !.outcome = IF job[t].channel_open THEN settlement("returned")
                                       ELSE "unsettled",
                           !.last_error = last_error, !.model_used = model_used]]
    /\ pc' = [pc EXCEPT ![t] = "idle"]
    /\ frame' = [frame EXCEPT ![t] = IdleFrame]
    /\ result' = [result EXCEPT ![t] = NoResult]
    /\ trace' = [trace EXCEPT ![t] = <<>>]
    /\ UNCHANGED <<now, MODEL_COOLDOWNS, config, impl, worker, site, stored, batch, producer, answer, sieve, digest, registry, pipeline>>

\* Message bodies: the item of id 1 has a row, no item has the id MaxItemId.
WorkerBodies ==
    {Body("undecodable", "missing", 0), Body("invalid_json", "missing", 0),
     Body("json_array", "missing", 0), Body("object", "missing", 0),
     Body("object", "string", 1), Body("object", "bool", 1),
     Body("object", "int", 1), Body("object", "int", MaxItemId)}

BrokerOf(bodies) ==
    Broker(bodies, [k \in 1..Len(bodies) |-> k], [k \in 1..Len(bodies) |-> 0],
           [k \in 1..Len(bodies) |-> <<>>])

\* An item as the crawler stored it, and the same item after an earlier job.
CrawledItem(external_id) ==
    Rows(ItemRow(1, external_id, "url", "title", "author", NoneText,
                 [k \in {"views"} |-> 10]),
         <<>>, <<>>, {})

ProcessedItem(external_id) ==
    Rows(ItemRow(1, external_id, "url", "title", "author", <<"o">>,
                 [k \in {"views", "summary_error"} |->
                     IF k = "views" THEN 10 ELSE NoMsg]),
         <<CommentRow("old1", <<"o">>), CommentRow("old2", <<"p">>)>>,
         <<"old.jpg">>,
         {SummaryRow("M1", <<"old">>, <<"old">>)})

\* The database of a worker: the items 1 and 2 have rows, item 1 fresh from the
\* crawler or with the rows of an earlier job.
WorkerDatabases ==
    {commit(commit([NoDatabase EXCEPT !.item_id_seq = 2], 1, first), 2, CrawledItem("e2")) :
        first \in {CrawledItem("e1"), ProcessedItem("e1")}}

\* _parse_model_list gives a non-empty list of stripped names.
WorkerConfigs ==
    {GeminiConfig(k, <<"M1", "M2">>, n, 45) : k \in {"", "key"}, n \in {-1, 0, 2}}

\* A page without images and comments.
PlainDetail == Detail("ok", <<"a", "b", "c">>, <<>>, <<>>, FALSE)

\* One queued message, and what the detail fetch gives for item 1: every
\* message body with a plain page, the message of item 1 with every page.
QueuedJobs(w) ==
    {[bodies |-> <<body>>, detail |-> PlainDetail] : body \in WorkerBodies}
    \cup {[bodies |-> <<Body("object", "int", 1)>>, detail |-> detail] :
            detail \in Details(w)}

InitWorker(configs, workers) ==
    /\ now = T0
    /\ MODEL_COOLDOWNS = <<>>
    /\ config \in configs
    /\ impl = "client_title"
    /\ pc = [t \in Threads |-> "idle"]
    /\ frame = [t \in Threads |-> IdleFrame]
    /\ result = [t \in Threads |-> NoResult]
    /\ trace = [t \in Threads |-> <<>>]
    /\ worker \in workers
    /\ db \in WorkerDatabases
    /\ job = [t \in Threads |-> IdleJob]
    /\ stored = NoUpsert
    /\ batch = NoBatch
    /\ producer = NoProducer
    /\ answer = NoAnswer
    /\ sieve = NoSieve
    /\ digest = NoDigest
    /\ registry = NoRegistry
    /\ pipeline = NoPipeline

\* The steps of a running handler.
handler_step(t) ==
    \/ SkipModel(t)
    \/ SendRequest(t)
    \/ ModelSucceeds(t)
    \/ ModelQuotaError(t)
    \/ ModelFails(t)
    \/ AllModelsExhausted(t)
    \/ handler_returns(t)

\* A worker whose trigger requests come one after another, one message queued.
InitJobs ==
    /\ InitWorker(WorkerConfigs, {"dcinside", "reddit"})
    /\ \E queued \in QueuedJobs(worker) :
          /\ broker = BrokerOf(queued.bodies)
          /\ site = [i \in ItemIds |-> IF i = 1 THEN queued.detail ELSE PlainDetail]
NextJobs == \E t \in MainThread : consume_one(t) \/ channel_closes(t) \/ handler_step(t)
SpecJobs == InitJobs /\ [][NextJobs]_vars

\* The worker process dies while the handler of thread t waits for its
\* summary: the connection goes without a commit, so the open transaction is
\* rolled back, the broker puts the unacknowledged message back, and the
\* process that takes over starts with an empty cooldown table.
worker_crashes(t) ==
    /\ job[t].phase = "running"
    /\ job' = [job EXCEPT ![t] =
          [@ EXCEPT !.phase = "finished", !.exit = "crashed", !.outcome = "unsettled",
                    !.channel_open = FALSE]]
    /\ broker' = IF job[t].channel_open THEN channel_lost(broker, job[t].msg) ELSE broker
    /\ MODEL_COOLDOWNS' = <<>>
    /\ pc' = [pc EXCEPT ![t] = "idle"]
    /\ frame' = [frame EXCEPT ![t] = IdleFrame]
    /\ result' = [result EXCEPT ![t] = NoResult]
    /\ trace' = [trace EXCEPT ![t] = <<>>]
    /\ UNCHANGED <<now, config, impl, worker, site, db, stored, batch, producer, answer, sieve, digest, registry, pipeline>>

\* The same worker, with process crashes, on the database an earlier job left.
ProcessedDatabase ==
    commit(commit([NoDatabase EXCEPT !.item_id_seq = 2], 1, ProcessedItem("e1")),
           2, CrawledItem("e2"))

InitRestart == InitJobs /\ db = ProcessedDatabase
NextRestart ==
    \E t \in MainThread :
        consume_one(t) \/ channel_closes(t) \/ handler_step(t) \/ worker_crashes(t)
SpecRestart == InitRestart /\ [][NextRestart]_vars

\* A worker under serve(): ThreadingHTTPServer runs do_POST, and so consume_one,
\* of every trigger request on a thread of its own.  Two messages are queued,
\* one for item 1 and one for item 2.
ServeConfigs == {GeminiConfig("key", <<"M1", "M2">>, 2, 45)}

InitServe ==
    /\ InitWorker(ServeConfigs, {"dcinside", "reddit"})
    /\ broker = BrokerOf(<<Body("object", "int", 1), Body("object", "int", 2)>>)
    /\ site = [i \in ItemIds |-> PlainDetail]
NextServe == \E t \in Threads : consume_one(t) \/ handler_step(t)
SpecServe == InitServe /\ [][NextServe]_vars

\* The crawler's store step: upsert_items with one post.
CrawledPosts ==
    {Post(ids[1], ids[2], shown[1], shown[2], shown[3], metadata) :
        ids \in {<<"e1", "9">>, <<"", "e1">>, <<"", "n3">>},
        shown \in {<<"url", "title", "author">>, <<"url2", "title2", "author2">>},
        metadata \in {[k \in {"views"} |-> 10],
                      [k \in {"views", "flair"} |-> IF k = "views" THEN 11 ELSE 1]}}

SourceIds == {1, 2}

upsert_items ==
    /\ db.item_id_seq < MaxItemId
    /\ \E source_id \in SourceIds, post \in CrawledPosts :
          LET upserted == upsert_item(db, source_id, post)
          IN  /\ db' = upserted.database
              /\ stored' = Upsert(source_id, post, upserted.item_id, upserted.inserted)
    /\ UNCHANGED <<now, MODEL_COOLDOWNS, config, impl, pc, frame, result, trace,
                   worker, broker, site, job, batch, producer, answer, sieve, digest, registry, pipeline>>

\* The databases a crawl starts on: empty, or with item 1 as an earlier crawl
\* or an earlier job left it.
StoreDatabases ==
    {NoDatabase} \cup
    {commit([NoDatabase EXCEPT !.item_id_seq = 1], 1, first) :
        first \in {CrawledItem("e1"), ProcessedItem("e1")}}

InitStore ==
    /\ now = T0
    /\ MODEL_COOLDOWNS = <<>>
    /\ config \in ServeConfigs
    /\ impl = "client_title"
    /\ pc = [t \in Threads |-> "idle"]
    /\ frame = [t \in Threads |-> IdleFrame]
    /\ result = [t \in Threads |-> NoResult]
    /\ trace = [t \in Threads |-> <<>>]
    /\ worker = "none"
    /\ broker = NoBroker
    /\ site = [i \in ItemIds |-> NoDetail]
    /\ db \in StoreDatabases
    /\ job = [t \in Threads |-> IdleJob]
    /\ stored = NoUpsert
    /\ batch = NoBatch
    /\ producer = NoProducer
    /\ answer = NoAnswer
    /\ sieve = NoSieve
    /\ digest = NoDigest
    /\ registry = NoRegistry
    /\ pipeline = NoPipeline
NextStore == upsert_items
SpecStore == InitStore /\ [][NextStore]_vars

\* The comments of one post, from the fetch to the rows and the summary lines.
\* The k-th of n raw comments has the id k and the author "u<k>"; it is a root
\* comment, a reply to the first or to the last comment of the batch or to a
\* comment the batch does not have, and it may lack its id, its prefix, its
\* author, its content or its depth.
RedditShapes(k, n) ==
    LET id == ToString(k)
        name == T1_PREFIX \o id
        user == "u" \o id
    IN  {RedditComment(name, id, "t3_p", user, <<"x">>, 0, FALSE, "5"),
         RedditComment("", id, "t1_1", user, <<"y">>, 1, FALSE, ""),
         RedditComment(name, id, T1_PREFIX \o ToString(n), "", <<"y", " ">>, 1, FALSE, ""),
         RedditComment(name, "", "t1_z", user, <<"y">>, 1, FALSE, ""),
         RedditComment(name, id, "t1_1", user, <<"y">>, 0, FALSE, ""),
         RedditComment("", "", "t3_p", user, <<"x">>, 0, FALSE, ""),
         RedditComment(name, id, "", user, <<"[deleted]">>, 0, FALSE, ""),
         RedditComment(name, id, "", user, <<" ">>, 0, TRUE, ""),
         RedditComment(name, id, "1", user, <<"y">>, 1, FALSE, ""),
         NotADict}

DcinsideShapes(k, n) ==
    LET id == ToString(k)
        user == "u" \o id
    IN  {CommentNode(<<>>, id, "", user, <<"x">>, "0"),
         CommentNode(<<>>, "", COMMENT_CNT_PREFIX \o id, user, <<"y">>, "1"),
         CommentNode(<<>>, id, "", "", <<"y", " ">>, ToString(n)),
         CommentNode(<<>>, id, "", user, <<"y">>, "z"),
         CommentNode(<<>>, "", "li_" \o id, user, <<"x">>, ""),
         CommentNode(<<"comment_write">>, id, "", user, <<"x">>, ""),
         CommentNode(<<"reply", "del">>, id, "", user, <<"x">>, ""),
         CommentNode(<<>>, id, "", user, <<"sakje">>, ""),
         CommentNode(<<>>, id, "", user, <<" ">>, "")}

RawShapes(platform, k, n) ==
    IF platform = "reddit" THEN RedditShapes(k, n) ELSE DcinsideShapes(k, n)

RawBatches(platform) ==
    UNION {{raw \in [1..n -> UNION {RawShapes(platform, k, n) : k \in 1..n}] :
               \A k \in 1..n : raw[k] \in RawShapes(platform, k, n)} : n \in 0..MaxBatch}

\* The normaliser of the platform hands the comments over.
normalise(platform, raw) ==
    IF platform = "reddit" THEN normalise_reddit_comments(raw)
    ELSE fetch_dcinside_comments(raw)

normalise_comments ==
    /\ batch.phase = "fetched"
    /\ batch' = [batch EXCEPT !.phase = "normalised",
                              !.comments = normalise(batch.platform, batch.raw)]
    /\ UNCHANGED <<now, MODEL_COOLDOWNS, config, impl, pc, frame, result, trace,
                   worker, broker, site, db, job, stored, producer, answer, sieve, digest, registry, pipeline>>

\* replace_item_comments(conn, item_id, comments) on an item that has comments
\* of an earlier fetch
store_comments ==
    /\ batch.phase = "normalised"
    /\ LET replaced == replace_item_comments(batch.tx, batch.comments)
       IN  batch' = [batch EXCEPT !.phase = "stored", !.ok = replaced.ok,
                                  !.tx = replaced.tx]
    /\ UNCHANGED <<now, MODEL_COOLDOWNS, config, impl, pc, frame, result, trace,
                   worker, broker, site, db, job, stored, producer, answer, sieve, digest, registry, pipeline>>

\* The worker of the platform renders the comments for the summary input.
linearise(platform, comments) ==
    IF platform = "reddit" THEN comments_for_summary(comments)
    ELSE format_comments_for_summary(comments)

linearise_comments ==
    /\ batch.phase = "stored"
    /\ batch' = [batch EXCEPT !.phase = "rendered",
                              !.lines = linearise(batch.platform, batch.comments)]
    /\ UNCHANGED <<now, MODEL_COOLDOWNS, config, impl, pc, frame, result, trace,
                   worker, broker, site, db, job, stored, producer, answer, sieve, digest, registry, pipeline>>

InitComments ==
    /\ now = T0
    /\ MODEL_COOLDOWNS = <<>>
    /\ config \in ServeConfigs
    /\ impl = "client_title"
    /\ pc = [t \in Threads |-> "idle"]
    /\ frame = [t \in Threads |-> IdleFrame]
    /\ result = [t \in Threads |-> NoResult]
    /\ trace = [t \in Threads |-> <<>>]
    /\ worker = "none"
    /\ broker = NoBroker
    /\ site = [i \in ItemIds |-> NoDetail]
    /\ db = NoDatabase
    /\ job = [t \in Threads |-> IdleJob]
    /\ stored = NoUpsert
    /\ producer = NoProducer
    /\ answer = NoAnswer
    /\ sieve = NoSieve
    /\ digest = NoDigest
    /\ registry = NoRegistry
    /\ pipeline = NoPipeline
    /\ \E platform \in {"dcinside", "reddit"} : \E raw \in RawBatches(platform) :
          batch = [NoBatch EXCEPT !.phase = "fetched", !.platform = platform,
                                  !.raw = raw, !.tx = ProcessedItem("e1")]
NextComments == normalise_comments \/ store_comments \/ linearise_comments
SpecComments == InitComments /\ [][NextComments]_vars

\* The answers of a model that the title+summary variant reads.
\* The longest answer, in characters.
MaxAnswer == 4

AnswerChars == {"\n", " ", "x", "y", TITLE_PREFIX} \cup LabelLines

AnswerTexts == UNION {[1..n -> AnswerChars] : n \in 0..MaxAnswer}

\* The model succeeded with answer.full_text: the else branch of the try.
read_answer ==
    /\ answer.phase = "received"
    /\ LET read == title_and_summary(answer.full_text)
       IN  answer' = [answer EXCEPT !.phase = "read", !.ok = read.ok, !.title = read.title,
                                    !.summary = read.summary, !.message = read.message]
    /\ UNCHANGED <<now, MODEL_COOLDOWNS, config, impl, pc, frame, result, trace,
                   worker, broker, site, db, job, stored, batch, producer, sieve, digest, registry, pipeline>>

InitAnswer ==
    /\ now = T0
    /\ MODEL_COOLDOWNS = <<>>
    /\ config \in ServeConfigs
    /\ impl = "client_title"
    /\ pc = [t \in Threads |-> "idle"]
    /\ frame = [t \in Threads |-> IdleFrame]
    /\ result = [t \in Threads |-> NoResult]
    /\ trace = [t \in Threads |-> <<>>]
    /\ worker = "none"
    /\ broker = NoBroker
    /\ site = [i \in ItemIds |-> NoDetail]
    /\ db = NoDatabase
    /\ job = [t \in Threads |-> IdleJob]
    /\ stored = NoUpsert
    /\ batch = NoBatch
    /\ producer = NoProducer
    /\ sieve = NoSieve
    /\ digest = NoDigest
    /\ registry = NoRegistry
    /\ pipeline = NoPipeline
    /\ \E full_text \in AnswerTexts :
          answer = [NoAnswer EXCEPT !.phase = "received", !.full_text = full_text]
NextAnswer == read_answer
SpecAnswer == InitAnswer /\ [][NextAnswer]_vars

\* The age window of the store scripts.  Time is counted in whole hours.
\* The latest hour of the clock.
MaxHours == 12

\* content_fetcher._KST: DCInside shows wall time of UTC+9.
KST_OFFSET == 9

\* A point in time that may be missing: at counts when ok.
Time(ok, at) == [ok |-> ok, at |-> at]

\* Post.date_iso of crawl_dcinside: the title attribute of the date cell of the
\* listing, the wall time of the site at the instant the post was published;
\* not ok when the attribute is missing or not of the format.
date_iso(published, stamped) == Time(stamped, published + KST_OFFSET)

\* _parse_post_datetime: strptime, then replace(tzinfo=timezone.utc), which
\* takes the wall time read for UTC.
parse_post_datetime(iso) == Time(iso.ok, iso.at)

\* _filter_posts of store_dcinside_posts for one post of an allowed subject
dcinside_filter_posts(clock, iso, min_age, max_age) ==
    LET published_at == parse_post_datetime(iso)
    IN  /\ min_age > 0 => (published_at.ok /\ published_at.at <= clock - min_age)
        /\ max_age > 0 => (published_at.ok /\ published_at.at >= clock - max_age)

\* The loop of fetch_reddit_posts for one node: it is skipped when there is a
\* cutoff and (created_utc or 0) is before it, which the epoch always is.
reddit_fetched(clock, created_utc, max_age) ==
    LET has_cutoff == max_age > 0
        cutoff == clock - max_age
    IN  ~(has_cutoff /\ (IF created_utc.ok THEN created_utc.at < cutoff ELSE TRUE))

\* _to_datetime: the time of the call for a missing timestamp
to_datetime(clock, created_utc) == IF created_utc.ok THEN created_utc.at ELSE clock

\* _filter_posts of store_reddit_posts for one post that is no video
reddit_filter_posts(clock, published_at, min_age, max_age) ==
    /\ ~(min_age > 0 /\ published_at > clock - min_age)
    /\ ~(max_age > 0 /\ published_at < clock - max_age)

\* MIN_POST_AGE_HOURS and MAX_POST_AGE_HOURS: env_int of the environment
AgeBounds == {-1, 0, 2, 6}

\* The store script of DCInside filters the listing.
filter_dcinside_listing ==
    /\ sieve.phase = "listed"
    /\ sieve.platform = "dcinside"
    /\ sieve' = [sieve EXCEPT
                    !.phase = "filtered",
                    !.passed = /\ sieve.admissible
                               /\ dcinside_filter_posts(sieve.clock,
                                                         date_iso(sieve.published, sieve.stamped),
                                                         sieve.min_age, sieve.max_age)]
    /\ UNCHANGED <<now, MODEL_COOLDOWNS, config, impl, pc, frame, result, trace,
                   worker, broker, site, db, job, stored, batch, producer, answer,
                   digest, registry, pipeline>>

\* The store script of Reddit fetches the listing of a subreddit and filters it.
filter_reddit_listing ==
    /\ sieve.phase = "listed"
    /\ sieve.platform = "reddit"
    /\ LET created_utc == Time(sieve.stamped, sieve.published)
       IN  sieve' = [sieve EXCEPT
                       !.phase = "filtered",
                       !.passed = /\ reddit_fetched(sieve.clock, created_utc, sieve.max_age)
                                  /\ sieve.admissible
                                  /\ reddit_filter_posts(sieve.clock,
                                                          to_datetime(sieve.clock, created_utc),
                                                          sieve.min_age, sieve.max_age)]
    /\ UNCHANGED <<now, MODEL_COOLDOWNS, config, impl, pc, frame, result, trace,
                   worker, broker, site, db, job, stored, batch, producer, answer,
                   digest, registry, pipeline>>

InitSieve ==
    /\ now = T0
    /\ MODEL_COOLDOWNS = <<>>
    /\ config \in ServeConfigs
    /\ impl = "client_title"
    /\ pc = [t \in Threads |-> "idle"]
    /\ frame = [t \in Threads |-> IdleFrame]
    /\ result = [t \in Threads |-> NoResult]
    /\ trace = [t \in Threads |-> <<>>]
    /\ worker = "none"
    /\ broker = NoBroker
    /\ site = [i \in ItemIds |-> NoDetail]
    /\ db = NoDatabase
    /\ job = [t \in Threads |-> IdleJob]
    /\ stored = NoUpsert
    /\ batch = NoBatch
    /\ producer = NoProducer
    /\ answer = NoAnswer
    /\ digest = NoDigest
    /\ registry = NoRegistry
    /\ pipeline = NoPipeline
    /\ \E platform \in {"dcinside", "reddit"}, clock \in 0..MaxHours, stamped \in BOOLEAN,
          admissible \in BOOLEAN, min_age \in AgeBounds, max_age \in AgeBounds :
          \E published \in 0..clock :
             /\ ~stamped => published = 0
             /\ sieve = [NoSieve EXCEPT !.phase = "listed", !.platform = platform,
                                        !.clock = clock, !.published = published,
                                        !.stamped = stamped, !.admissible = admissible,
                                        !.min_age = min_age, !.max_age = max_age]
NextSieve == filter_dcinside_listing \/ filter_reddit_listing
SpecSieve == InitSieve /\ [][NextSieve]_vars

\* The auto-digest task of the bot and the registration of channels.
\* The latest tick of the clock of the database.
MaxClock == 3

ChannelIds == {"c1", "c2"}
Intervals == {1, 2}

is_due(row, clock) == row.is_active /\ row.next_run_at <= clock

\* SELECT ... FROM digest_subscription WHERE is_active = TRUE AND
\* (next_run_at IS NULL OR next_run_at <= NOW())
RECURSIVE due_subscriptions(_, _)
due_subscriptions(table, clock) ==
    IF table = <<>> THEN <<>>
    ELSE (IF is_due(Head(table), clock) THEN <<Head(table)>> ELSE <<>>)
         \o due_subscriptions(Tail(table), clock)

\* _upsert_digest_subscription_sync: INSERT ... ON CONFLICT (channel_id) DO
\* UPDATE SET ..., is_active = TRUE, next_run_at = NOW()
insert_digest_subscription(table, channel_id, interval_minutes, clock) ==
    Append(table, Subscription(Len(table) + 1, channel_id, interval_minutes, TRUE, clock))

upsert_digest_subscription(table, channel_id, interval_minutes, clock) ==
    IF \E k \in 1..Len(table) : table[k].channel_id = channel_id
    THEN [k \in 1..Len(table) |->
             IF table[k].channel_id = channel_id
             THEN [table[k] EXCEPT !.interval_minutes = interval_minutes,
                                   !.is_active = TRUE, !.next_run_at = clock]
             ELSE table[k]]
    ELSE Append(table, Subscription(Len(table) + 1, channel_id, interval_minutes, TRUE, clock))

\* UPDATE digest_subscription SET last_run_at = NOW(), next_run_at = NOW() +
\* interval_minutes WHERE id = %s
update_next_run(table, id, interval_minutes, clock) ==
    [k \in 1..Len(table) |->
        IF table[k].id = id THEN [table[k] EXCEPT !.next_run_at = clock + interval_minutes]
        ELSE table[k]]

\* How the loop body of the task ends for a subscription: the channel is not
\* resolved, fetch_digest_entries raises, there are no entries, the digest is
\* sent, or channel.send raises.
TickOutcomes == {"unresolved", "query_failed", "no_entries", "sent", "send_failed"}
UpdatingOutcomes == {"no_entries", "sent", "send_failed"}

\* The yes button of /autoinfo: the channel is registered.
register ==
    /\ digest.phase # "none"
    /\ \E channel_id \in ChannelIds, interval_minutes \in Intervals :
          digest' = [digest EXCEPT
                        !.table = upsert_digest_subscription(@, channel_id, interval_minutes,
                                                             digest.clock),
                        !.last = TickRecord(channel_id, "registered", TRUE)]
    /\ UNCHANGED <<now, MODEL_COOLDOWNS, config, impl, pc, frame, result, trace,
                   worker, broker, site, db, job, stored, batch, producer, answer,
                   sieve, registry, pipeline>>

\* The clock of the database moves on.
time_passes ==
    /\ digest.phase # "none"
    /\ digest.clock < MaxClock
    /\ digest' = [digest EXCEPT !.clock = @ + 1]
    /\ UNCHANGED <<now, MODEL_COOLDOWNS, config, impl, pc, frame, result, trace,
                   worker, broker, site, db, job, stored, batch, producer, answer,
                   sieve, registry, pipeline>>

\* A tick of auto_digest_task, as far as the loop over the subscriptions: the
\* query, and the default mode when it gave nothing.
auto_digest_task_starts ==
    /\ digest.phase = "idle"
    /\ \E query_ok \in BOOLEAN :
          LET subs == IF query_ok THEN due_subscriptions(digest.table, digest.clock)
                      ELSE <<>>
              default_mode == subs = <<>> /\ digest.default_channel
          IN  digest' = [digest EXCEPT
                            !.phase = IF subs = <<>> THEN "idle" ELSE "looping",
                            !.subs = subs,
                            !.mode = IF default_mode THEN "default"
                                     ELSE IF subs = <<>> THEN "nothing"
                                     ELSE "subscriptions",
                            !.query_ok = query_ok,
                            !.rows_seen = Len(digest.table),
                            !.selected = Len(subs),
                            !.last = TickRecord("", "none", FALSE)]
    /\ UNCHANGED <<now, MODEL_COOLDOWNS, config, impl, pc, frame, result, trace,
                   worker, broker, site, db, job, stored, batch, producer, answer,
                   sieve, registry, pipeline>>

\* One round of the loop over the subscriptions of the tick.
auto_digest_task_loops ==
    /\ digest.phase = "looping"
    /\ \E outcome \in TickOutcomes, update_ok \in BOOLEAN :
          LET sub == Head(digest.subs)
              updates == outcome \in UpdatingOutcomes
              updated == updates /\ update_ok
          IN  /\ ~updates => update_ok
              /\ digest' = [digest EXCEPT
                               !.phase = IF Tail(digest.subs) = <<>> THEN "idle" ELSE "looping",
                               !.subs = Tail(@),
                               !.table = IF updated
                                         THEN update_next_run(@, sub.id, sub.interval_minutes,
                                                              digest.clock)
                                         ELSE @,
                               !.last = TickRecord(sub.channel_id, outcome, updated)]
    /\ UNCHANGED <<now, MODEL_COOLDOWNS, config, impl, pc, frame, result, trace,
                   worker, broker, site, db, job, stored, batch, producer, answer,
                   sieve, registry, pipeline>>

InitDigest ==
    /\ now = T0
    /\ MODEL_COOLDOWNS = <<>>
    /\ config \in ServeConfigs
    /\ impl = "client_title"
    /\ pc = [t \in Threads |-> "idle"]
    /\ frame = [t \in Threads |-> IdleFrame]
    /\ result = [t \in Threads |-> NoResult]
    /\ trace = [t \in Threads |-> <<>>]
    /\ worker = "none"
    /\ broker = NoBroker
    /\ site = [i \in ItemIds |-> NoDetail]
    /\ db = NoDatabase
    /\ job = [t \in Threads |-> IdleJob]
    /\ stored = NoUpsert
    /\ batch = NoBatch
    /\ producer = NoProducer
    /\ answer = NoAnswer
    /\ sieve = NoSieve
    /\ registry = NoRegistry
    /\ pipeline = NoPipeline
    /\ \E default_channel \in BOOLEAN :
          digest = [NoDigest EXCEPT !.phase = "idle", !.default_channel = default_channel]
NextDigest ==
    register \/ time_passes \/ auto_digest_task_starts \/ auto_digest_task_loops
SpecDigest == InitDigest /\ [][NextDigest]_vars

\* The store scripts that queue jobs.
\* The longest listing a crawl returns.
MaxListing == 2

\* get_or_create_source: the row of the source, inserted without is_active,
\* which defaults to FALSE, when there is none
get_or_create_source_active(source) ==
    IF source.exists THEN [source |-> source, created |-> FALSE]
    ELSE [source |-> Source(TRUE, TRUE), created |-> TRUE]

get_or_create_source(source) ==
    IF source.exists THEN [source |-> source, created |-> FALSE]
    ELSE [source |-> Source(TRUE, FALSE), created |-> TRUE]

\* A post of the listing; admissible says that it passes the tests of
\* _filter_posts: subject and age for DCInside, no video and age for Reddit.
Listed(post, admissible) == [post |-> post, admissible |-> admissible]

Admissible(listed) == listed.admissible

filter_posts(listing) ==
    LET filtered == SelectSeq(listing, Admissible)
    IN  [k \in 1..Len(filtered) |-> filtered[k].post]

\* upsert_items that returns the posts it inserted only
RECURSIVE upsert_posts_inserted_only(_, _, _)
upsert_posts_inserted_only(database, source_id, posts) ==
    IF posts = <<>> THEN [database |-> database, item_ids |-> <<>>]
    ELSE LET first == upsert_item(database, source_id, Head(posts))
             rest == upsert_posts_inserted_only(first.database, source_id, Tail(posts))
         IN  [database |-> rest.database,
              item_ids |-> (IF first.inserted THEN <<first.item_id>> ELSE <<>>)
                               \o rest.item_ids]

\* upsert_items over the posts: the database and the item id of every post
RECURSIVE upsert_posts(_, _, _)
upsert_posts(database, source_id, posts) ==
    IF posts = <<>> THEN [database |-> database, item_ids |-> <<>>]
    ELSE LET first == upsert_item(database, source_id, Head(posts))
             rest == upsert_posts(first.database, source_id, Tail(posts))
         IN  [database |-> rest.database, item_ids |-> <<first.item_id>> \o rest.item_ids]

\* _publish_item_ids when the connection to the broker holds for the first
\* `delivered` calls of basic_publish: the item ids of the messages published
publish_item_ids(item_ids, delivered) ==
    SubSeq(item_ids, 1, IF delivered < Len(item_ids) THEN delivered ELSE Len(item_ids))

ListedPosts ==
    {Post("e1", "9", "url", "title", "author", [k \in {"views"} |-> 10]),
     Post("", "n3", "url2", "title2", "author2", [k \in {"views"} |-> 11])}

Listings ==
    UNION {[1..n -> {Listed(post, admissible) : post \in ListedPosts, admissible \in BOOLEAN}] :
              n \in 0..MaxListing}

\* main of the store script of the platform: one run.  The DCInside script
\* fetches the listing before it reads the source row, and publishes after the
\* transaction of the audit row is committed; the Reddit script fetches the
\* listing of a subreddit after it found the source active, and publishes
\* inside the transaction of the audit row, which an exception rolls back.  The
\* Reddit script does this for each of its subreddits in turn: the model
\* follows one of them.
main(platform) ==
    /\ producer.platform = platform
    /\ \E listing \in Listings, delivered \in 0..MaxListing :
          LET got == get_or_create_source(producer.source)
              active == got.source.is_active
              fetched == platform = "dcinside" \/ active
              posts == IF active THEN filter_posts(listing) ELSE <<>>
              crawls == active /\ posts # <<>>
              upserted == upsert_posts(db, got.source.id, posts)
              item_ids == IF crawls THEN upserted.item_ids ELSE <<>>
              published == publish_item_ids(item_ids, delivered)
              failed == Len(published) < Len(item_ids)
              logged == crawls /\ (platform = "dcinside" \/ ~failed)
              row == LogRow(Len(item_ids), Len(listing), Len(posts))
          IN  /\ crawls => db.item_id_seq + Len(posts) <= MaxItemId
              /\ delivered <= Len(item_ids)
              /\ ~fetched => listing = <<>>
              /\ db' = IF crawls THEN upserted.database ELSE db
              /\ producer' =
                    [producer EXCEPT
                        !.source = got.source, !.runs = 1, !.created = got.created,
                        !.listing = listing, !.posts = posts, !.item_ids = item_ids,
                        !.published = published, !.failed = failed, !.logged = logged,
                        !.log = IF logged THEN Append(@, row) ELSE @]
    /\ UNCHANGED <<now, MODEL_COOLDOWNS, config, impl, pc, frame, result, trace,
                   worker, broker, site, job, stored, batch, answer, sieve, digest, registry, pipeline>>

\* An operator sets is_active of the source row.
activate_source ==
    /\ producer.source.exists
    /\ ~producer.source.is_active
    /\ producer' = [producer EXCEPT !.source.is_active = TRUE]
    /\ UNCHANGED <<now, MODEL_COOLDOWNS, config, impl, pc, frame, result, trace,
                   worker, broker, site, db, job, stored, batch, answer, sieve, digest, registry, pipeline>>

InitProducer ==
    /\ now = T0
    /\ MODEL_COOLDOWNS = <<>>
    /\ config \in ServeConfigs
    /\ impl = "client_title"
    /\ pc = [t \in Threads |-> "idle"]
    /\ frame = [t \in Threads |-> IdleFrame]
    /\ result = [t \in Threads |-> NoResult]
    /\ trace = [t \in Threads |-> <<>>]
    /\ worker = "none"
    /\ broker = NoBroker
    /\ site = [i \in ItemIds |-> NoDetail]
    /\ db \in {NoDatabase, commit([NoDatabase EXCEPT !.item_id_seq = 1], 1, CrawledItem("e1"))}
    /\ job = [t \in Threads |-> IdleJob]
    /\ stored = NoUpsert
    /\ batch = NoBatch
    /\ answer = NoAnswer
    /\ sieve = NoSieve
    /\ digest = NoDigest
    /\ registry = NoRegistry
    /\ pipeline = NoPipeline
    /\ \E platform \in {"dcinside", "reddit"}, exists \in BOOLEAN, is_active \in BOOLEAN :
          /\ is_active => exists
          /\ producer = [NoProducer EXCEPT !.platform = platform,
                                          !.source = Source(exists, is_active)]
NextProducer == activate_source \/ \E platform \in {"dcinside", "reddit"} : main(platform)
SpecProducer == InitProducer /\ [][NextProducer]_vars

\* A store script and a worker over one database and one queue.
\* The runs of the store script in a behaviour.
MaxRuns == 2

\* upsert_items without its conn.commit(): other connections go on seeing the
\* database as it was
no_commit_of_upserts(database, upserted) == database

\* conn.commit() at the end of upsert_items: the rows it wrote are visible to
\* every connection
commit_of_upserts(database, upserted) == upserted

\* main of a store script whose source is active, up to the return of
\* upsert_items: the whole listing is upserted in one transaction.
store_script_upserts(platform) ==
    /\ pipeline.phase = "idle"
    /\ pipeline.platform = platform
    /\ pipeline.runs < MaxRuns
    /\ \E listing \in Listings :
          LET got == get_or_create_source(Source(TRUE, TRUE))
              posts == filter_posts(listing)
              upserted == upsert_posts(db, got.source.id, posts)
          IN  /\ posts # <<>>
              /\ db.item_id_seq + Len(posts) <= MaxItemId
              /\ db' = commit_of_upserts(db, upserted.database)
              /\ pipeline' =
                    [pipeline EXCEPT
                        !.phase = "publishing", !.runs = @ + 1, !.posts = posts,
                        !.item_ids = upserted.item_ids,
                        !.pending = upserted.item_ids, !.failed = FALSE]
    /\ UNCHANGED <<now, MODEL_COOLDOWNS, config, impl, pc, frame, result, trace, worker,
                   broker, site, job, stored, batch, producer, answer, sieve, digest,
                   registry>>

\* One basic_publish of the loop of _publish_item_ids; the script is over
\* after the last one.
publish_item_id ==
    /\ pipeline.phase = "publishing"
    /\ pipeline.pending # <<>>
    /\ pipeline' =
          [pipeline EXCEPT
              !.pending = Tail(@),
              !.queue = Append(@, Head(pipeline.pending)),
              !.jobs = Append(@, Job(Head(pipeline.pending), pipeline.runs)),
              !.phase = IF Len(pipeline.pending) = 1 THEN "idle" ELSE @]
    /\ UNCHANGED <<now, MODEL_COOLDOWNS, config, impl, pc, frame, result, trace, worker,
                   broker, site, db, job, stored, batch, producer, answer, sieve, digest,
                   registry>>

\* The connection to the broker cannot be opened or breaks inside the loop:
\* the exception ends the script.
publish_fails ==
    /\ pipeline.phase = "publishing"
    /\ pipeline.pending # <<>>
    /\ pipeline' =
          [pipeline EXCEPT
              !.phase = "idle", !.failed = TRUE,
              !.stranded = @ \cup {pipeline.pending[k] : k \in DOMAIN pipeline.pending}]
    /\ UNCHANGED <<now, MODEL_COOLDOWNS, config, impl, pc, frame, result, trace, worker,
                   broker, site, db, job, stored, batch, producer, answer, sieve, digest,
                   registry>>

\* process_message of the worker for the job at the head of the queue, from
\* _fetch_item to its return: a DCInside post with a video is deleted, a
\* Reddit post with a video is marked as skipped, another post gets a summary.
worker_takes_job ==
    /\ pipeline.queue # <<>>
    /\ \E is_video \in BOOLEAN :
          LET item_id == Head(pipeline.queue)
              tx == RowsOf(db, item_id)
              found == tx.item.exists
              did == CASE ~found -> "missing"
                       [] found /\ is_video /\ pipeline.platform = "dcinside" -> "deleted"
                       [] found /\ is_video /\ pipeline.platform = "reddit" -> "skipped"
                       [] OTHER -> "summarised"
              written ==
                  CASE did = "deleted" -> delete_item(tx)
                    [] did = "skipped" ->
                          update_item_with_summary(tx, NoneText, <<>>, 0, "M1", NoneText,
                                                   MsgSkippedVideo, now)
                    [] did = "summarised" ->
                          update_item_with_summary(tx, <<"s">>, <<"r">>, 0, "M1", <<"t">>,
                                                   NoMsg, now)
                    [] OTHER -> tx
          IN  /\ db' = IF found THEN commit(db, item_id, written) ELSE db
              /\ pipeline' =
                    [pipeline EXCEPT
                        !.queue = Tail(@),
                        !.deleted = IF did = "deleted" THEN @ \cup {item_id} ELSE @,
                        !.taken = Append(@, Taken(item_id, found,
                                                  item_id \in pipeline.deleted,
                                                  tx.item.external_id, tx.summary # {},
                                                  did))]
    /\ UNCHANGED <<now, MODEL_COOLDOWNS, config, impl, pc, frame, result, trace, worker,
                   broker, site, job, stored, batch, producer, answer, sieve, digest,
                   registry>>

InitPipeline ==
    /\ now = T0
    /\ MODEL_COOLDOWNS = <<>>
    /\ config \in ServeConfigs
    /\ impl = "client_title"
    /\ pc = [t \in Threads |-> "idle"]
    /\ frame = [t \in Threads |-> IdleFrame]
    /\ result = [t \in Threads |-> NoResult]
    /\ trace = [t \in Threads |-> <<>>]
    /\ worker = "none"
    /\ broker = NoBroker
    /\ site = [i \in ItemIds |-> NoDetail]
    /\ db \in {NoDatabase, commit([NoDatabase EXCEPT !.item_id_seq = 1], 1, ProcessedItem("e1"))}
    /\ job = [t \in Threads |-> IdleJob]
    /\ stored = NoUpsert
    /\ batch = NoBatch
    /\ producer = NoProducer
    /\ answer = NoAnswer
    /\ sieve = NoSieve
    /\ digest = NoDigest
    /\ registry = NoRegistry
    /\ \E platform \in {"dcinside", "reddit"} :
          pipeline = [NoPipeline EXCEPT !.phase = "idle", !.platform = platform]
NextPipeline ==
    \/ \E platform \in {"dcinside", "reddit"} : store_script_upserts(platform)
    \/ publish_item_id
    \/ publish_fails
    \/ worker_takes_job
SpecPipeline == InitPipeline /\ [][NextPipeline]_vars

\* Two store scripts in get_or_create_source for the same source code, each
\* on a connection of its own, under READ COMMITTED.
SOURCE_CODE == "dcinside"

RowsWithCode(rows, code) == {r \in rows : r.code = code}

\* A source table without the UNIQUE constraint on code
no_unique_code(rows, code) == {}

\* code VARCHAR(50) NOT NULL UNIQUE: the rows an INSERT of the code conflicts
\* with
unique_code(rows, code) == RowsWithCode(rows, code)

\* The rows other connections inserted and have not committed.
PendingOfOthers(p) ==
    {registry.call[q].pending : q \in {c \in Callers \ {p} : registry.call[c].at = "commit"}}

\* SELECT ... FROM source WHERE code = %s, and the return when a row is there
select_source(p) ==
    /\ registry.call[p].at = "select"
    /\ LET existing == RowsWithCode(registry.table, SOURCE_CODE)
       IN  registry' =
              IF existing # {}
              THEN [registry EXCEPT
                       !.call[p].at = "returned",
                       !.call[p].got = CHOOSE r \in existing : TRUE,
                       !.call[p].created = FALSE]
              ELSE [registry EXCEPT !.call[p].at = "insert"]
    /\ UNCHANGED <<now, MODEL_COOLDOWNS, config, impl, pc, frame, result, trace, worker,
                   broker, site, db, job, stored, batch, producer, answer, sieve, digest,
                   pipeline>>

\* INSERT ... ON CONFLICT (code) DO NOTHING RETURNING: it waits while another
\* connection holds an uncommitted row of the code, does nothing when a
\* committed row of the code is there, and writes its row otherwise; the id
\* comes from the sequence in either case, and is_active from its default.
insert_source(p) ==
    /\ registry.call[p].at = "insert"
    /\ unique_code(PendingOfOthers(p), SOURCE_CODE) = {}
    /\ LET row == SourceRow(registry.id_seq + 1, SOURCE_CODE, registry.call[p].name, FALSE)
       IN  registry' =
              IF unique_code(registry.table, SOURCE_CODE) # {}
              THEN [registry EXCEPT !.id_seq = @ + 1, !.call[p].at = "refetch"]
              ELSE [registry EXCEPT !.id_seq = @ + 1, !.call[p].at = "commit",
                                    !.call[p].pending = row]
    /\ UNCHANGED <<now, MODEL_COOLDOWNS, config, impl, pc, frame, result, trace, worker,
                   broker, site, db, job, stored, batch, producer, answer, sieve, digest,
                   pipeline>>

\* conn.commit() and return dict(inserted), True
commit_source(p) ==
    /\ registry.call[p].at = "commit"
    /\ registry' =
          [registry EXCEPT
              !.table = @ \cup {registry.call[p].pending},
              !.call[p].at = "returned",
              !.call[p].got = registry.call[p].pending,
              !.call[p].pending = NoSourceRow,
              !.call[p].created = TRUE]
    /\ UNCHANGED <<now, MODEL_COOLDOWNS, config, impl, pc, frame, result, trace, worker,
                   broker, site, db, job, stored, batch, producer, answer, sieve, digest,
                   pipeline>>

\* The connection is lost before the commit: the server rolls the INSERT back
\* and the call raises.
connection_lost(p) ==
    /\ registry.call[p].at = "commit"
    /\ registry' = [registry EXCEPT !.call[p].at = "raised",
                                    !.call[p].pending = NoSourceRow]
    /\ UNCHANGED <<now, MODEL_COOLDOWNS, config, impl, pc, frame, result, trace, worker,
                   broker, site, db, job, stored, batch, producer, answer, sieve, digest,
                   pipeline>>

\* The second SELECT, after an INSERT that wrote nothing: the row, or
\* RuntimeError when there is none
refetch_source(p) ==
    /\ registry.call[p].at = "refetch"
    /\ LET refetched == RowsWithCode(registry.table, SOURCE_CODE)
       IN  registry' =
              IF refetched # {}
              THEN [registry EXCEPT
                       !.call[p].at = "returned",
                       !.call[p].got = CHOOSE r \in refetched : TRUE,
                       !.call[p].created = FALSE]
              ELSE [registry EXCEPT !.call[p].at = "raised"]
    /\ UNCHANGED <<now, MODEL_COOLDOWNS, config, impl, pc, frame, result, trace, worker,
                   broker, site, db, job, stored, batch, producer, answer, sieve, digest,
                   pipeline>>

\* An operator sets is_active of the row of the code.
operator_activates ==
    /\ registry.phase = "open"
    /\ ~registry.activated
    /\ \E r \in RowsWithCode(registry.table, SOURCE_CODE) :
          /\ ~r.is_active
          /\ registry' = [registry EXCEPT
                             !.table = (@ \ {r}) \cup {[r EXCEPT !.is_active = TRUE]},
                             !.activated = TRUE]
    /\ UNCHANGED <<now, MODEL_COOLDOWNS, config, impl, pc, frame, result, trace, worker,
                   broker, site, db, job, stored, batch, producer, answer, sieve, digest,
                   pipeline>>

\* The source tables the calls start on: empty, with the row of another code,
\* and with the row of the code, inactive or active.
SourceTables ==
    {{}, {SourceRow(1, "reddit", "r", TRUE)}} \cup
    {{SourceRow(1, "reddit", "r", TRUE), SourceRow(2, SOURCE_CODE, "n0", is_active)} :
        is_active \in BOOLEAN}

InitRegistry ==
    /\ now = T0
    /\ MODEL_COOLDOWNS = <<>>
    /\ config \in ServeConfigs
    /\ impl = "client_title"
    /\ pc = [t \in Threads |-> "idle"]
    /\ frame = [t \in Threads |-> IdleFrame]
    /\ result = [t \in Threads |-> NoResult]
    /\ trace = [t \in Threads |-> <<>>]
    /\ worker = "none"
    /\ broker = NoBroker
    /\ site = [i \in ItemIds |-> NoDetail]
    /\ db = NoDatabase
    /\ job = [t \in Threads |-> IdleJob]
    /\ stored = NoUpsert
    /\ batch = NoBatch
    /\ producer = NoProducer
    /\ answer = NoAnswer
    /\ sieve = NoSieve
    /\ digest = NoDigest
    /\ pipeline = NoPipeline
    /\ \E table \in SourceTables, names \in [Callers -> {"n1", "n2"}] :
          registry = [NoRegistry EXCEPT
                         !.phase = "open", !.table = table, !.id_seq = Cardinality(table),
                         !.seeded = RowsWithCode(table, SOURCE_CODE) # {},
                         !.call = [p \in Callers |->
                                      Call("select", names[p], NoSourceRow, NoSourceRow,
                                           FALSE)]]
NextRegistry ==
    \/ operator_activates
    \/ \E p \in Callers :
          \/ select_source(p)
          \/ insert_source(p)
          \/ commit_source(p)
          \/ connection_lost(p)
          \/ refetch_source(p)
SpecRegistry == InitRegistry /\ [][NextRegistry]_vars

\* The store script that summarises in the crawl run itself, with db_utils.
\* The most summary rows an item gets.
MaxSummaryRows == 2

CODEX_MODEL == "gpt-5-codex"

\* A row of item_summary as db_utils.ensure_tables creates the table: a serial
\* id, no summary_title, no unique index on (item_id, model_name).
SerialSummaryRow(id, model_name, summary_text) ==
    [id |-> id, model_name |-> model_name, summary_text |-> summary_text]

\* db_utils.update_item_with_summary on the rows of the item, up to its commit
db_utils_update_item_with_summary(tx, summary, raw_text, image_count, model_name, last_error, clock) ==
    LET metadata_patch ==
            [k \in {"raw_text", "image_count", "summary_generated_at", "summary_error"} |->
                CASE k = "raw_text" -> raw_text
                  [] k = "image_count" -> image_count
                  [] k = "summary_generated_at" -> clock
                  [] OTHER -> last_error]
        updated ==
            IF tx.item.exists
            THEN [tx EXCEPT !.item.content = raw_text,
                            !.item.metadata = jsonb_concat(@, metadata_patch)]
            ELSE tx
    IN  IF summary \in {NoneText, <<>>} THEN updated
        ELSE [updated EXCEPT !.summary =
                 @ \cup {SerialSummaryRow(Cardinality(@) + 1, model_name, summary)}]

\* What the crawl hands over for a post: its comments, its images, its text,
\* and what summarise_with_codex gives for it, a summary or a SummaryError.
CrawledComments == {<<>>, <<CommentDict("t1_1", "u1", <<"x">>, "", 0, FALSE, "")>>}
CodexAnswers == {<<"s">>, <<"t">>, NoneText}

\* One round of the loop of process_jobs, for the job of item item_id
process_jobs(item_id) ==
    /\ db.item[item_id].exists
    /\ Cardinality(db.summary[item_id]) < MaxSummaryRows
    /\ \E comments \in CrawledComments, assets \in {<<>>, <<"a.jpg">>}, codex \in CodexAnswers :
          LET raw_text == compose_post_text(<<"p">>, comments_for_summary(comments))
              failed == codex = NoneText
              last_error == IF failed THEN MsgTimeout(CODEX_MODEL) ELSE NoMsg
              summary == IF failed THEN raw_text ELSE codex
              replaced == replace_item_comments(RowsOf(db, item_id), comments)
              with_assets == replace_item_assets(replaced.tx, assets)
              tx == db_utils_update_item_with_summary(with_assets, summary, raw_text,
                                                      Len(assets), CODEX_MODEL, last_error, now)
          IN  db' = commit(db, item_id, tx)
    /\ UNCHANGED <<now, MODEL_COOLDOWNS, config, impl, pc, frame, result, trace,
                   worker, broker, site, job, stored, batch, producer, answer, sieve, digest, registry, pipeline>>

InitLegacy ==
    /\ now = T0
    /\ MODEL_COOLDOWNS = <<>>
    /\ config \in ServeConfigs
    /\ impl = "client_title"
    /\ pc = [t \in Threads |-> "idle"]
    /\ frame = [t \in Threads |-> IdleFrame]
    /\ result = [t \in Threads |-> NoResult]
    /\ trace = [t \in Threads |-> <<>>]
    /\ worker = "none"
    /\ broker = NoBroker
    /\ site = [i \in ItemIds |-> NoDetail]
    /\ db = commit(commit([NoDatabase EXCEPT !.item_id_seq = 2], 1, CrawledItem("e1")),
                   2, CrawledItem("e2"))
    /\ job = [t \in Threads |-> IdleJob]
    /\ stored = NoUpsert
    /\ batch = NoBatch
    /\ producer = NoProducer
    /\ answer = NoAnswer
    /\ sieve = NoSieve
    /\ digest = NoDigest
    /\ registry = NoRegistry
    /\ pipeline = NoPipeline
NextLegacy == \E item_id \in ItemIds : process_jobs(item_id)
SpecLegacy == InitLegacy /\ [][NextLegacy]_vars

-----------------------------------------------------------------------------
(* Vocabulary of the properties *)

LastOf(seq) == seq[Len(seq)]

\* The clock value a call compares a stored expiry with.
CallClock(t) == IF impl = "root" THEN frame[t].clock ELSE now

\* In this step thread t tests the cooldown of the model at its loop position.
TestsCooldown(t) == pc[t] = "loop" /\ Len(trace'[t]) = Len(trace[t]) + 1

\* In this step thread t gets the end of its request.
RequestEnds(t) == pc[t] = "wait" /\ Len(trace'[t]) = Len(trace[t]) + 1

InsideWindow(model, clock) ==
    model \in DOMAIN MODEL_COOLDOWNS /\ MODEL_COOLDOWNS[model] > clock

Lines(text) == {text[k] : k \in 1..Len(text)}

IsTest(event) == event.what \in {"skip", "send"}

\* How many cooldown tests the first j entries of a trace hold.
TestsUpTo(tr, j) == Cardinality({k \in 1..j : IsTest(tr[k])})

HasQuotaVocabulary(message) ==
    \E keyword \in QuotaKeywords : Contains(lower(message), keyword)

\* HTTP 429 or 503, or a non-200 error message with quota vocabulary.
QuotaClass(resp) ==
    /\ resp.kind = "http"
    /\ resp.status # 200
    /\ (resp.status \in {429, 503} \/ HasQuotaVocabulary(resp.error_message))

\* Timeout, request error, non-200 status that is not quota-class, invalid
\* JSON, no text in the response.
NonQuotaFailure(resp) ==
    \/ resp.kind \in {"timeout", "request_error"}
    \/ resp.kind = "http" /\ resp.status # 200 /\ ~QuotaClass(resp)
    \/ resp.kind = "http" /\ resp.status = 200 /\ (~resp.valid_json \/ resp.text = <<>>)

\* The call of thread t is over and raised after its model loop had begun.
FailedInLoop(t) ==
    pc[t] = "done" /\ result[t].status = "raised" /\ frame[t].available_models # <<>>

\* The loop of thread t's call ran off the end of the model list.
Exhausted(t) == FailedInLoop(t) /\ frame[t].i > Len(frame[t].available_models)

-----------------------------------------------------------------------------
(* C1 *)

\* C1, first part: a call over [M1, M2] in which M1's request ended with HTTP
\* 429 and M2's request gave an answer is over, has returned M2's answer with
\* model_used = M2 (the title variant: unless the answer holds label lines
\* only), and M1 has a cooldown entry.
C1_FallbackResult ==
    \A t \in MainThread :
        (/\ frame[t].available_models = <<"M1", "M2">>
         /\ Len(trace[t]) = 4
         /\ trace[t][1] = Event("M1", "send", NoResponse)
         /\ trace[t][2].what = "quota" /\ trace[t][2].resp.status = 429
         /\ trace[t][3] = Event("M2", "send", NoResponse)
         /\ trace[t][4].what = "return")
        => /\ pc[t] = "done"
           /\ "M1" \in DOMAIN MODEL_COOLDOWNS
           /\ impl # "client_title"
              => /\ result[t].status = "returned"
                 /\ result[t].model_used = "M2"
                 /\ result[t].summary = trace[t][4].resp.text
           /\ (impl = "client_title" /\ Lines(trace[t][4].resp.text) \ LabelLines # {})
              => /\ result[t].status = "returned"
                 /\ result[t].model_used = "M2"
                 /\ result[t].title \in Lines(trace[t][4].resp.text)
                 /\ Lines(result[t].summary) \subseteq Lines(trace[t][4].resp.text)

\* C1, second part: a call that tests a model whose stored expiry lies after the
\* call's clock sends no request to it and goes on to the next listed model; a
\* call that tests a model whose expiry has been reached sends its request to it.
C1_CooldownStep ==
    \A t \in MainThread :
        TestsCooldown(t) =>
            LET model == frame[t].available_models[frame[t].i]
            IN  IF InsideWindow(model, CallClock(t))
                THEN /\ LastOf(trace'[t]) = Event(model, "skip", NoResponse)
                     /\ pc'[t] = "loop"
                     /\ frame'[t].i = frame[t].i + 1
                ELSE /\ LastOf(trace'[t]) = Event(model, "send", NoResponse)
                     /\ pc'[t] = "wait"

\* C1: with [M1, M2], M1 failing with 429 and M2 succeeding, the call returns
\* M2's output with model_used = M2 and M1 gets a cooldown entry; a call before
\* M1's expiry skips M1 and sends its first request to M2; a call after the
\* expiry sends its first request to M1 again.
C1_FallbackOrder == []C1_FallbackResult /\ [][C1_CooldownStep]_vars

\* A following call has skipped M1, still inside its window, and got its answer
\* from M2, its first request.
C1_Witness ==
    \E t \in MainThread :
        /\ pc[t] = "done"
        /\ result[t].status = "returned"
        /\ result[t].model_used = "M2"
        /\ Len(trace[t]) = 3
        /\ trace[t][1] = Event("M1", "skip", NoResponse)
        /\ trace[t][2] = Event("M2", "send", NoResponse)
        /\ "M1" \in DOMAIN MODEL_COOLDOWNS /\ MODEL_COOLDOWNS["M1"] > now

-----------------------------------------------------------------------------
(* C2 *)

\* C2: in calls made one after another, no request goes to a model at a time
\* earlier than the expiry stored for it; a model whose stored expiry has been
\* reached at the call's clock gets its request while the entry is still stored.
C2_NoRequestInsideWindow ==
    [][\A t \in MainThread :
          LET model == frame[t].available_models[frame[t].i]
          IN  /\ (pc[t] = "loop" /\ pc'[t] = "wait") => ~InsideWindow(model, now)
              /\ (TestsCooldown(t) /\ model \in DOMAIN MODEL_COOLDOWNS
                    /\ MODEL_COOLDOWNS[model] <= CallClock(t))
                 => /\ pc'[t] = "wait"
                    /\ MODEL_COOLDOWNS' = MODEL_COOLDOWNS]_vars

\* A request is in flight to a model whose entry, run out, is still stored.
C2_Witness ==
    \E t \in MainThread :
        /\ pc[t] = "wait"
        /\ LastOf(trace[t]).model \in DOMAIN MODEL_COOLDOWNS
        /\ MODEL_COOLDOWNS[LastOf(trace[t]).model] <= now

-----------------------------------------------------------------------------
(* C3 *)

\* The parts of C3 that do not count requests: the cooldown tests of a call
\* follow the list, entry by entry; a successful request is the last event of
\* the call, the call returns that model as model_used, and the cooldown table
\* holds no entry for the model afterwards.
C3_OrderAndStop(t) ==
    /\ \A j \in 1..Len(trace[t]) :
          IsTest(trace[t][j]) =>
              /\ TestsUpTo(trace[t], j) <= Len(frame[t].available_models)
              /\ trace[t][j].model = frame[t].available_models[TestsUpTo(trace[t], j)]
    /\ \A j \in 1..Len(trace[t]) :
          trace[t][j].what = "return" =>
              /\ j = Len(trace[t])
              /\ pc[t] = "done"
              /\ trace[t][j].model \notin DOMAIN MODEL_COOLDOWNS
              /\ result[t].status = "returned" => result[t].model_used = trace[t][j].model
              /\ impl # "client_title" => result[t].status = "returned"

\* C3 as stated: requests in list order, at most one request per model, none
\* after the first success, that model returned and without cooldown entry.
C3_OneRequestPerModel ==
    \A t \in MainThread :
        /\ C3_OrderAndStop(t)
        /\ \A j, k \in 1..Len(trace[t]) :
              (j < k /\ trace[t][j].what = "send" /\ trace[t][k].what = "send")
              => trace[t][j].model # trace[t][k].model

\* C3 as amended: at most one request per list entry (a model listed twice can
\* get one request per entry), the rest as stated.
C3_OneRequestPerEntry ==
    \A t \in MainThread :
        /\ C3_OrderAndStop(t)
        /\ Cardinality({j \in 1..Len(trace[t]) : trace[t][j].what = "send"})
              <= Len(frame[t].available_models)

\* A call over two entries returned after the first entry's request; the second
\* entry was never tested.
C3_Witness ==
    \E t \in MainThread :
        /\ pc[t] = "done"
        /\ result[t].status = "returned"
        /\ Len(frame[t].available_models) = 2
        /\ Len(trace[t]) = 2
        /\ result[t].model_used = frame[t].available_models[1]

-----------------------------------------------------------------------------
(* C4 *)

\* C4: when a request ends with a quota-class error at time t, the model's
\* cooldown entry becomes t + max(cooldown_seconds, 30), at least t + 30, and
\* the call goes on to the next listed model.
C4_QuotaSetsCooldown ==
    [][\A t \in MainThread :
          (RequestEnds(t) /\ QuotaClass(LastOf(trace'[t]).resp)) =>
              LET model == frame[t].available_models[frame[t].i]
              IN  /\ model \in DOMAIN MODEL_COOLDOWNS'
                  /\ MODEL_COOLDOWNS'[model] = now + Max2(config.cooldown_seconds, 30)
                  /\ MODEL_COOLDOWNS'[model] >= now + 30
                  /\ LastOf(trace'[t]).what = "quota"
                  /\ pc'[t] = "loop"
                  /\ frame'[t].i = frame[t].i + 1]_vars

\* A quota error under a configured duration of 0 or less has set an entry 30
\* seconds ahead.
C4_Witness ==
    \E t \in MainThread :
        /\ pc[t] = "loop"
        /\ trace[t] # <<>>
        /\ LastOf(trace[t]).what = "quota"
        /\ config.cooldown_seconds <= 0
        /\ MODEL_COOLDOWNS[LastOf(trace[t]).model] = now + 30

-----------------------------------------------------------------------------
(* C5 *)

\* C5, frame part: a non-quota failure of a request leaves the cooldown table
\* as it is, records the error and moves the call to the next listed model.
C5_FailureStep ==
    \A t \in MainThread :
        (RequestEnds(t) /\ NonQuotaFailure(LastOf(trace'[t]).resp)) =>
            /\ MODEL_COOLDOWNS' = MODEL_COOLDOWNS
            /\ LastOf(trace'[t]).what = "error"
            /\ Len(frame'[t].errors) = Len(frame[t].errors) + 1
            /\ pc'[t] = "loop"
            /\ frame'[t].i = frame[t].i + 1

\* Every entry of the model list was tested: skipped, or sent a request (which,
\* the call having failed, gave no result).
EveryModelSkippedOrFailed(t) ==
    TestsUpTo(trace[t], Len(trace[t])) = Len(frame[t].available_models)

\* C5 as stated, last part: a call that fails in its model loop fails only
\* after every listed model was skipped for cooldown or failed.
C5_FailsOnlyWhenExhausted ==
    \A t \in MainThread : FailedInLoop(t) => EveryModelSkippedOrFailed(t)

\* The title variant raised right after a request that came back with an
\* answer, because the answer held label lines only.
RaisedOnLabelOnlyAnswer(t) ==
    /\ impl = "client_title"
    /\ LastOf(trace[t]).what = "return"
    /\ Lines(LastOf(trace[t]).resp.text) \subseteq LabelLines \cup {""}
    /\ result[t].last_model = LastOf(trace[t]).model

\* C5 as amended: the frame part, and a call that fails in its model loop fails
\* after every listed model was skipped or failed or, in the title variant,
\* right after an answer of label lines only, without trying the later models.
C5_NonQuotaFailure ==
    /\ [][C5_FailureStep]_vars
    /\ [](\A t \in MainThread :
            FailedInLoop(t) => (EveryModelSkippedOrFailed(t) \/ RaisedOnLabelOnlyAnswer(t)))

\* A call over two models failed after a non-quota failure of the first and a
\* test of the second, with a cooldown entry in the table throughout.
C5_Witness ==
    \E t \in MainThread :
        /\ Exhausted(t)
        /\ Len(frame[t].available_models) = 2
        /\ trace[t][2].what = "error"
        /\ MODEL_COOLDOWNS # <<>>

-----------------------------------------------------------------------------
(* C6 *)

HasSend(t) == \E j \in 1..Len(trace[t]) : trace[t][j].what = "send"

LastSent(t) ==
    LET j == CHOOSE j \in 1..Len(trace[t]) :
                /\ trace[t][j].what = "send"
                /\ \A k \in (j + 1)..Len(trace[t]) : trace[t][k].what # "send"
    IN  trace[t][j].model

\* C6 as stated: whenever the model list is exhausted, all failed or all inside
\* their cooldown window, the error carries the last recorded error message and
\* the last model attempted as its tag.
C6_ExhaustedCarriesLastError ==
    \A t \in MainThread :
        Exhausted(t) =>
            /\ frame[t].errors # <<>>
            /\ result[t].message = LastOf(frame[t].errors)
            /\ HasSend(t)
            /\ result[t].last_model = LastSent(t)

\* C6 as amended: when at least one request was sent, the error carries the last
\* recorded message and the last model attempted (M2 for [M1, M2] both failing
\* with quota errors); when every model was inside its window, it carries the
\* fixed all-skipped message and no model tag.
C6_ExhaustedError ==
    \A t \in MainThread :
        Exhausted(t) =>
            /\ HasSend(t) =>
                  /\ frame[t].errors # <<>>
                  /\ result[t].message = LastOf(frame[t].errors)
                  /\ result[t].message.model \in {None, LastSent(t)}
                  /\ result[t].last_model = LastSent(t)
            /\ ~HasSend(t) =>
                  /\ result[t].message = MsgAllSkipped
                  /\ result[t].last_model = None
            /\ (/\ frame[t].available_models = <<"M1", "M2">>
                /\ Len(trace[t]) = 4
                /\ trace[t][2].what = "quota"
                /\ trace[t][4].what = "quota")
               => result[t].last_model = "M2"

\* [M1, M2] both failed with quota errors and the call raised.
C6_Witness ==
    \E t \in MainThread :
        /\ Exhausted(t)
        /\ frame[t].available_models = <<"M1", "M2">>
        /\ Len(trace[t]) = 4
        /\ trace[t][2].what = "quota"
        /\ trace[t][4].what = "quota"
        /\ result[t].last_model = "M2"

-----------------------------------------------------------------------------
(* C7 *)

\* C7: once a quota error has set the cooldown of a model, no call, also on a
\* concurrent thread, removes or shortens the entry before its expiry (so every
\* call that reads the table before the expiry observes it and skips the model).
C7_UnexpiredEntryKept ==
    [][\A model \in DOMAIN MODEL_COOLDOWNS :
          MODEL_COOLDOWNS[model] > now =>
              /\ model \in DOMAIN MODEL_COOLDOWNS'
              /\ MODEL_COOLDOWNS'[model] >= MODEL_COOLDOWNS[model]]_vars

-----------------------------------------------------------------------------
(* C8 *)

\* C8: with an empty api_key every call, whatever its text, image list and
\* model list, is over at once with the missing-key error: no cooldown test, no
\* request, and the cooldown table as it was.
C8_MissingKeyFailsAtOnce ==
    config.api_key = "" =>
        /\ MODEL_COOLDOWNS = <<>>
        /\ \A t \in MainThread :
              /\ trace[t] = <<>>
              /\ pc[t] \in {"idle", "done"}
              /\ pc[t] = "done" =>
                    /\ result[t] = Raised(MsgMissingKey, None)
                    /\ frame[t].available_models = <<>>

\* A call with a text, an image and two listed models failed on the empty key.
C8_Witness ==
    \E t \in MainThread :
        /\ config.api_key = ""
        /\ config.model_priorities = <<"M1", "M2">>
        /\ pc[t] = "done"
        /\ result[t].status = "raised"
        /\ frame[t].text = <<"a", "b">>
        /\ frame[t].image_paths # <<>>

-----------------------------------------------------------------------------
(* C9 *)

\* None, empty, or whitespace only.
BlankText(text) == text = NoneText \/ \A k \in 1..Len(text) : text[k] \in Whitespace

\* C9: for a call with a configured key and an empty or whitespace-only text
\* (so without comment lines): without image paths it is over with the
\* no-content error before any cooldown test or request; with at least one
\* image path the placeholder sentence is the text, cut like any text to the
\* character budget, and the call goes to its model loop.
C9_ContentGate ==
    \A t \in MainThread :
        (pc[t] # "idle" /\ config.api_key # "" /\ BlankText(frame[t].text)) =>
            IF frame[t].image_paths = <<>>
            THEN /\ pc[t] = "done"
                 /\ result[t] = Raised(MsgNoContent, None)
                 /\ trace[t] = <<>>
            ELSE /\ result[t].message # MsgNoContent
                 /\ frame[t].available_models # <<>>
                 /\ pc[t] = "done" => trace[t] # <<>>
                 /\ IF Len(PLACEHOLDER) <= config.max_text_length
                    THEN frame[t].text_to_use = PLACEHOLDER
                    ELSE \E k \in 0..Len(PLACEHOLDER) :
                            frame[t].text_to_use = SubSeq(PLACEHOLDER, 1, k) \o ELLIPSIS

\* A whitespace-only text with an image path went to the models as the
\* placeholder sentence.
C9_Witness ==
    \E t \in MainThread :
        /\ pc[t] = "wait"
        /\ frame[t].text = <<" ">>
        /\ frame[t].image_paths # <<>>
        /\ frame[t].text_to_use = PLACEHOLDER

-----------------------------------------------------------------------------
(* C10 *)

\* The call of thread t went past the content gate with a text of its own.
HasOwnText(t) ==
    /\ pc[t] # "idle"
    /\ frame[t].available_models # <<>>
    /\ ~BlankText(frame[t].text)

\* C10 as stated: a text longer than max_text_length is cut to its first
\* max_text_length characters followed by the ellipsis marker, a text of length
\* at most max_text_length is passed on unchanged (read for the lengths a text
\* can have, max_text_length >= 0).
C10_TruncationOfText ==
    \A t \in MainThread :
        (HasOwnText(t) /\ config.max_text_length >= 0) =>
            LET text == frame[t].text
                max_text_length == config.max_text_length
            IN  IF Len(text) > max_text_length
                THEN frame[t].text_to_use = SubSeq(text, 1, max_text_length) \o ELLIPSIS
                ELSE frame[t].text_to_use = text

\* C10 as amended: the text is first stripped of leading and trailing
\* whitespace.  For max_text_length >= 0 a stripped text longer than
\* max_text_length is cut to its first max_text_length characters followed by
\* the ellipsis marker, and a stripped text of length at most max_text_length
\* is passed on as it is.  For max_text_length < 0 every stripped text loses
\* its last -max_text_length characters (all of them when it is shorter) and
\* gets the marker.
C10_TruncationOfStrippedText ==
    \A t \in MainThread :
        HasOwnText(t) =>
            LET text == strip(frame[t].text)
                max_text_length == config.max_text_length
            IN  IF max_text_length < 0
                THEN \E k \in 0..Len(text) :
                        /\ k = Len(text) + max_text_length \/ (k = 0 /\ Len(text) + max_text_length < 0)
                        /\ frame[t].text_to_use = SubSeq(text, 1, k) \o ELLIPSIS
                ELSE IF Len(text) > max_text_length
                THEN /\ frame[t].text_to_use = SubSeq(text, 1, max_text_length) \o ELLIPSIS
                     /\ Len(frame[t].text_to_use) = max_text_length + Len(ELLIPSIS)
                ELSE frame[t].text_to_use = text

\* A text with whitespace around it, longer than the budget after stripping,
\* was cut.
C10_Witness ==
    \E t \in MainThread :
        /\ HasOwnText(t)
        /\ Head(frame[t].text) = " "
        /\ Len(strip(frame[t].text)) > config.max_text_length
        /\ config.max_text_length > 0
        /\ frame[t].text_to_use =
              SubSeq(strip(frame[t].text), 1, config.max_text_length) \o ELLIPSIS

-----------------------------------------------------------------------------
(* C11 *)

\* C11: for every body text and every non-empty list of comment lines, the text
\* that reaches the model holds the whole comment block, every comment line in
\* full and in the order of the list, whatever the length of the body: the cut
\* to max_text_length applies to the body only.
C11_CommentBlockInFull ==
    \A t \in MainThread :
        (/\ pc[t] # "idle"
         /\ frame[t].available_models # <<>>
         /\ config.max_text_length >= 1
         /\ job[t].comment_lines # <<>>)
        => Contains(frame[t].text_to_use, join_lines(job[t].comment_lines))

-----------------------------------------------------------------------------
(* Vocabulary of the worker properties *)

\* In this step consume_one of thread t takes message msg from the queue.
Takes(t, msg) ==
    /\ broker.ready # <<>>
    /\ msg = Head(broker.ready)
    /\ broker'.deliveries[msg] = broker.deliveries[msg] + 1
    /\ job'[t].msg = msg

\* In this step the delivery of msg that thread t holds is settled as how.
Settles(t, msg, how) ==
    /\ job'[t].msg = msg
    /\ broker'.settled[msg] = Append(broker.settled[msg], how)

\* In this step the handler of thread t is over with the channel of its
\* delivery still open.
EndsWithOpenChannel(t) ==
    job[t].phase # "finished" /\ job'[t].phase = "finished" /\ job'[t].channel_open

\* msg waits in the queue for a delivery.
Queued(b, msg) == \E k \in 1..Len(b.ready) : b.ready[k] = msg

\* The body is a JSON object that holds an integer item_id.
WellFormed(body) == body.kind = "object" /\ body.id_type = "int"

-----------------------------------------------------------------------------
(* C12 *)

\* C12: whenever consume_one takes a message whose body is not a JSON object
\* holding an integer item_id, and the channel of the delivery stays open, the
\* delivery is settled with a nack without requeue, the database is as before
\* and the message does not wait in the queue again.
C12_MalformedRejectedForGood ==
    [][\A t \in MainThread : \A msg \in DOMAIN broker.bodies :
          (/\ Takes(t, msg)
           /\ ~WellFormed(broker.bodies[msg])
           /\ EndsWithOpenChannel(t))
          => (/\ Settles(t, msg, "nack")
              /\ db' = db
              /\ ~Queued(broker', msg))]_vars

-----------------------------------------------------------------------------
(* C13 *)

-----------------------------------------------------------------------------
(* C14 *)

\* The detail fetch of the item fails.
FetchFails(item_id) == site[item_id].kind \in {"request_error", "parse_error", "error"}

\* In this step consume_one of thread t takes a well-formed message for an item
\* that has a row, and the channel of the delivery is open afterwards.
TakesJob(t, msg) ==
    /\ Takes(t, msg)
    /\ WellFormed(broker.bodies[msg])
    /\ db.item[broker.bodies[msg].item_id].exists
    /\ job'[t].channel_open

\* The step leaves the job of thread t over and acknowledged, the item with a
\* summary_error that is not null, and its comment, asset and summary rows as
\* they were.
MarkedAndAcknowledged(t, msg) ==
    LET item_id == broker.bodies[msg].item_id
    IN  /\ job'[t].phase = "finished"
        /\ Settles(t, msg, "ack")
        /\ ~Queued(broker', msg)
        /\ db'.item[item_id].exists
        /\ "summary_error" \in DOMAIN db'.item[item_id].metadata
        /\ db'.item[item_id].metadata["summary_error"] # NoMsg
        /\ db'.summary[item_id] = db.summary[item_id]
        /\ db'.comment[item_id] = db.comment[item_id]
        /\ db'.asset[item_id] = db.asset[item_id]

\* C14: whenever consume_one takes a job whose detail fetch fails, of either
\* worker and with the channel open, the job is over with the item's
\* summary_error set to an error string, no summary row written, the item's
\* comments and assets as before, and the message acknowledged and out of the
\* queue.
C14_FailedFetchMarked ==
    [][\A t \in MainThread : \A msg \in DOMAIN broker.bodies :
          (TakesJob(t, msg) /\ FetchFails(broker.bodies[msg].item_id))
          => MarkedAndAcknowledged(t, msg)]_vars

\* C14, the part that holds: the same for a fetch that fails with an exception
\* the worker catches (requests.RequestException in the DCInside worker, any
\* exception in the Reddit worker).
C14_CaughtFailureMarked ==
    [][\A t \in MainThread : \A msg \in DOMAIN broker.bodies :
          (/\ TakesJob(t, msg)
           /\ site[broker.bodies[msg].item_id].kind \in {"request_error", "error"})
          => MarkedAndAcknowledged(t, msg)]_vars

-----------------------------------------------------------------------------
(* C15 *)

\* The detail fetch of the item gives a post with video content.
ShowsVideo(item_id) ==
    /\ site[item_id].kind = "ok"
    /\ (site[item_id].is_video \/ contains_video_url(site[item_id].image_urls))

\* The step leaves the job of thread t over and acknowledged and no row of
\* the item in the database.
DeletedAndAcknowledged(t, msg) ==
    /\ job'[t].phase = "finished"
    /\ Settles(t, msg, "ack")
    /\ RowsOf(db', broker.bodies[msg].item_id) = NoRows

\* C15: whenever consume_one takes a job whose fetched detail shows video
\* content, of either worker and with the channel open, the job is over, the
\* item row is deleted, no comment, asset or summary row of the item exists,
\* and the message is acknowledged.
C15_VideoItemDeleted ==
    [][\A t \in MainThread : \A msg \in DOMAIN broker.bodies :
          (TakesJob(t, msg) /\ ShowsVideo(broker.bodies[msg].item_id))
          => DeletedAndAcknowledged(t, msg)]_vars

\* C15, the part that holds: the same in the DCInside worker.
C15_VideoItemDeletedByDcinside ==
    [][\A t \in MainThread : \A msg \in DOMAIN broker.bodies :
          (/\ TakesJob(t, msg)
           /\ ShowsVideo(broker.bodies[msg].item_id)
           /\ worker = "dcinside")
          => DeletedAndAcknowledged(t, msg)]_vars

-----------------------------------------------------------------------------
(* C16 *)

\* In this step process_message of thread t, whose summarise call raised,
\* writes the item and returns.
ReturnsAfterFailure(t) ==
    /\ job[t].phase = "running"
    /\ pc[t] = "done"
    /\ result[t].status = "raised"
    /\ job'[t].phase = "finished"

\* The model tag of the failure, the primary model when it has none.
FailureTag(t) ==
    IF result[t].last_model # None THEN result[t].last_model
    ELSE primary_model(config.model_priorities)

\* The first n characters of a text.
FirstChars(text, n) == SubSeq(text, 1, Min2(Max2(n, 0), Len(text)))

\* After the step the item has exactly one summary row of the model, with text.
HasSummaryRow(item_id, model_name, text) ==
    /\ \E row \in db'.summary[item_id] :
          row.model_name = model_name /\ row.summary_text = text
    /\ \A row \in db'.summary[item_id] :
          row.model_name = model_name => row.summary_text = text

\* After the step the error of the failed call is the item's summary_error, and
\* the message is acknowledged if the channel of its delivery is open.
ErrorRecordedAndAcknowledged(t) ==
    /\ db'.item[job[t].item_id].metadata["summary_error"] = result[t].message
    /\ result[t].message # NoMsg
    /\ job[t].channel_open => Settles(t, job[t].msg, "ack")

-----------------------------------------------------------------------------
(* C17 *)

\* In this step the handler that thread t runs on its delivery of msg is over.
HandlerEnds(t, msg) ==
    /\ job'[t].msg = msg
    /\ job'[t].phase = "finished"
    /\ Takes(t, msg) \/ (job[t].phase = "running" /\ job[t].msg = msg)

\* What the handler's end asks for: an ack when it returned, a nack without
\* requeue on MessageHandlingError(requeue=False), a nack with requeue on
\* any other exception.
SettlementFor(exit) ==
    IF exit = "returned" THEN "ack"
    ELSE IF exit = "permanent_error" THEN "nack"
    ELSE "nack_requeue"

\* In this step consume_one of thread t finds the queue empty.
FindsQueueEmpty(t) ==
    broker.ready = <<>> /\ job'[t] # job[t] /\ job'[t].outcome = "queue_empty"

\* C17 as stated: every delivery is settled when its handler is over, by an
\* ack if the handler returned, a nack without requeue on a permanent
\* MessageHandlingError, a nack with requeue on any other exception.
C17_SettledExactlyOnce ==
    [][\A t \in MainThread : \A msg \in DOMAIN broker.bodies :
          HandlerEnds(t, msg)
          => broker'.settled[msg] =
                Append(broker.settled[msg], SettlementFor(job'[t].exit))]_vars

\* C17, amended: a delivery is settled at most once, and only in the step in
\* which its handler is over: if the channel of the delivery is open then, by
\* an ack if the handler returned (the rows the handler wrote are committed
\* then), a nack without requeue on a permanent MessageHandlingError, a nack
\* with requeue on any other exception; if the channel has closed, not at all.
\* No message has more settlements than deliveries, and an empty queue leads to
\* no ack or nack.
C17_SettledAtMostOnce ==
    [][\A msg \in DOMAIN broker.bodies :
          /\ Len(broker'.settled[msg]) <= broker'.deliveries[msg]
          /\ broker'.settled[msg] # broker.settled[msg]
               => \E t \in MainThread : HandlerEnds(t, msg) /\ job'[t].channel_open
          /\ \A t \in MainThread :
               /\ (HandlerEnds(t, msg) /\ job'[t].channel_open)
                    => /\ broker'.settled[msg] =
                             Append(broker.settled[msg], SettlementFor(job'[t].exit))
                       /\ job'[t].exit = "returned"
                            => RowsOf(db', job'[t].item_id) = job'[t].tx
               /\ (HandlerEnds(t, msg) /\ ~job'[t].channel_open)
                    => broker'.settled[msg] = broker.settled[msg]
               /\ (job[t].phase = "running" /\ job'[t].phase = "running")
                    => broker'.settled = broker.settled
               /\ FindsQueueEmpty(t) => broker' = broker]_vars

\* A message was delivered twice: the channel of the first delivery closed
\* while the handler ran, the second delivery is acknowledged.
C17_Witness ==
    \E t \in MainThread :
        /\ job[t].phase = "finished"
        /\ job[t].exit = "returned"
        /\ job[t].outcome = "ack"
        /\ job[t].last_error = NoMsg
        /\ job[t].model_used # None
        /\ broker.deliveries[job[t].msg] = 2
        /\ broker.settled[job[t].msg] = <<"ack">>
        /\ broker.ready = <<>>

-----------------------------------------------------------------------------
(* C18 *)

\* The threads of the process that run a job handler.
RunningHandlers == {t \in Threads : job[t].phase = "running"}

\* The messages the process holds unacknowledged.
Unacknowledged == {job[t].msg : t \in RunningHandlers}

\* C18: at no moment does the worker process run two job handlers or hold two
\* unacknowledged messages, whatever trigger requests arrive.
C18_OneJobAtATime ==
    Cardinality(RunningHandlers) <= 1 /\ Cardinality(Unacknowledged) <= 1

-----------------------------------------------------------------------------
(* C19 *)

\* This step is an upsert_items call.
Upserts == db'.item_id_seq = db.item_id_seq + 1

\* The keys an earlier job of a worker wrote into the metadata of an item.
WorkerKeys == {"raw_text", "image_count", "summary_generated_at", "summary_error"}

\* C19: an upsert of a post leaves exactly one item row with the post's
\* (source, external_id) and returns the id of that row.  When such a row was
\* there before, it is the same row, inserted is false, url, title and author
\* are the post's, the metadata holds the keys of both, the post's values on
\* the post's keys and the stored values on all others (the keys a worker
\* wrote among them), and the content is as before.  When no such row was there,
\* inserted is true.  Every other item row is as before.
C19_UpsertKeepsOneRow ==
    [][Upserts =>
          LET post == stored'.post
              key == post_external_id(post)
              before == conflicting(db, stored'.source_id, key)
              after == conflicting(db', stored'.source_id, key)
              id == stored'.item_id
              old == db.item[id]
              new == db'.item[id]
          IN  /\ after = {id}
              /\ Cardinality(before) <= 1
              /\ stored'.inserted <=> before = {}
              /\ \A i \in ItemIds \ {id} : db'.item[i] = db.item[i]
              /\ before # {}
                   => /\ before = {id}
                      /\ new.url = post.url
                      /\ new.title = post.title
                      /\ new.author = post.writer
                      /\ DOMAIN new.metadata = DOMAIN old.metadata \cup DOMAIN post.metadata
                      /\ \A k \in DOMAIN post.metadata : new.metadata[k] = post.metadata[k]
                      /\ \A k \in DOMAIN old.metadata \ DOMAIN post.metadata :
                            new.metadata[k] = old.metadata[k]
                      /\ WorkerKeys \cap DOMAIN old.metadata \subseteq DOMAIN new.metadata
                      /\ new.content = old.content]_vars

\* The post of an item that a worker had processed was upserted again with
\* new values: the row has the new url and the new views, and still the
\* content and the summary_error the worker wrote.
C19_Witness ==
    /\ stored.item_id = 1
    /\ ~stored.inserted
    /\ stored.post.url = "url2"
    /\ db.item[1].url = "url2"
    /\ db.item[1].content = <<"o">>
    /\ db.item[1].metadata["views"] = 11
    /\ "summary_error" \in DOMAIN db.item[1].metadata
    /\ db.item_id_seq = MaxItemId
    /\ Cardinality({i \in ItemIds : db.item[i].exists}) = 1

-----------------------------------------------------------------------------
(* C20 *)

\* The external id of an entry: the value of its external_id, or of its id when
\* that is missing, without surrounding whitespace.
ExternalIdOf(raw) ==
    LET given == IF raw.external_id # "" THEN raw.external_id ELSE raw.id
    IN  IF given \in {" ", "  "} THEN "" ELSE given

HasExternalId(raw) == ExternalIdOf(raw) # ""

\* The comment rows of the entries of L that have an external id, in L's order.
EntriesWithId(L) ==
    LET kept == SelectSeq(L, HasExternalId)
    IN  [k \in 1..Len(kept) |-> CommentRow(ExternalIdOf(kept[k]), kept[k].content)]

\* This step commits the transaction in which the handler of thread t called
\* replace_item_comments: the commit of replace_item_assets when there are
\* assets, by the time the handler returns otherwise.
CommitsComments(t) ==
    \/ /\ job[t].phase # "running"
       /\ job'[t].phase = "running"
       /\ job'[t].image_paths # <<>>
    \/ /\ job[t].phase = "running"
       /\ job'[t].phase = "finished"

\* C20: when the transaction of replace_item_comments(item, L) is committed,
\* the comment rows of the item are exactly the entries of L that have an
\* external id, none for an empty L, whatever rows the item had before, and
\* the comment rows of every other item are as before.
C20_CommentsReplaced ==
    [][\A t \in MainThread :
          CommitsComments(t)
          => LET L == job'[t].detail.comments
             IN  /\ db'.comment[job'[t].item_id] = EntriesWithId(L)
                 /\ L = <<>> => db'.comment[job'[t].item_id] = <<>>
                 /\ \A i \in ItemIds \ {job'[t].item_id} :
                       db'.comment[i] = db.comment[i]]_vars

\* An item that had two comments from an earlier job has, after a job whose
\* fetch gave one entry with a blank external id and one with an id, exactly
\* the comment of the second entry.
C20_Witness ==
    \E t \in MainThread :
        /\ job[t].phase = "finished"
        /\ job[t].exit = "returned"
        /\ job[t].item_id = 1
        /\ Len(job[t].detail.comments) = 2
        /\ SummaryRow("M1", <<"old">>, <<"old">>) \in db.summary[1]
        /\ db.comment[1] = <<CommentRow("c3", <<" ">>)>>

\* The comment rows and the entries of the batch replace_item_comments has
\* stored.
StoredBatch == batch.phase \in {"stored", "rendered"}

\* The rows, by position, whose external id is the one an entry declares as
\* its parent.
RowsDeclaredBy(entry) ==
    {j \in 1..Len(batch.tx.comment) :
        /\ entry.parent_external_id # ""
        /\ batch.tx.comment[j].external_id = entry.parent_external_id}

\* C21: after replace_item_comments on a batch, every entry has its row, the
\* parent of the row is the row of the same batch that has the external id the
\* entry declares as its parent, before or after it in the batch, and null when
\* no row of the batch has that id; the operation does not fail for it.
C21_ParentsLinked ==
    StoredBatch
    => /\ batch.ok
       /\ Len(batch.tx.comment) = Len(batch.comments)
       /\ \A k \in 1..Len(batch.comments) :
             LET declared == RowsDeclaredBy(batch.comments[k])
                 row == batch.tx.comment[k]
             IN  /\ row.external_id = batch.comments[k].external_id
                 /\ declared # {} => row.parent \in declared
                 /\ declared = {} => row.parent = 0

\* A stored batch in which one reply stands before its parent, one after its
\* parent, and one declares a parent the batch does not have.
C21_Witness ==
    /\ StoredBatch
    /\ \E k \in 1..Len(batch.tx.comment) : batch.tx.comment[k].parent > k
    /\ \E k \in 1..Len(batch.tx.comment) : batch.tx.comment[k].parent \in 1..(k - 1)
    /\ \E k \in 1..Len(batch.comments) :
          /\ batch.comments[k].parent_external_id # ""
          /\ batch.tx.comment[k].parent = 0

Rendered == batch.phase = "rendered"

\* The line of the k-th comment of the batch, which has content: lines are in
\* the order of the comments, one per comment with content.
LineOf(k) ==
    batch.lines[Cardinality({j \in 1..k : HasContent(batch.comments[j])})]

\* The label of a line and what follows it, behind the indentation.
Unindented(line) == lstrip(line)

HasRootLabel(line) == Unindented(line)[1] = ROOT_LABEL
HasReplyLabel(line) == Unindented(line)[1] = REPLY_LABEL
HasReplyToLabel(line, author) ==
    SubSeq(Unindented(line), 1, 3) = <<REPLY_TO, author, REPLY_TO_END>>

\* Comments a, b and c of the batch have content, b declares a as its parent,
\* and c declares a parent no comment of the batch has.
ReplyTriple(a, b, c) ==
    /\ a # b /\ b # c /\ a # c
    /\ \A k \in {a, b, c} : HasContent(batch.comments[k])
    /\ batch.comments[a].parent_external_id = ""
    /\ batch.comments[b].parent_external_id = batch.comments[a].external_id
    /\ batch.comments[c].parent_external_id # ""
    /\ \A k \in 1..Len(batch.comments) :
          batch.comments[k].external_id # batch.comments[c].parent_external_id

\* The depth of the three is that of a root comment and two replies.
DepthsAgree(a, b, c) ==
    /\ batch.comments[a].depth <= 0
    /\ batch.comments[b].depth >= 1
    /\ batch.comments[c].depth >= 1

LabelledAsThread(a, b, c) ==
    /\ HasRootLabel(LineOf(a))
    /\ HasReplyToLabel(LineOf(b), batch.comments[a].author)
    /\ HasReplyLabel(LineOf(c))

\* C22 as stated: in a rendered batch, whenever B declares A as its parent and
\* C declares a parent absent from the batch, all three with content, A's line
\* has the root label, B's the reply label with A's author, C's the generic
\* reply label.
C22_LabelsFollowParents ==
    Rendered
    => \A a, b, c \in 1..Len(batch.comments) :
          ReplyTriple(a, b, c) => LabelledAsThread(a, b, c)

\* C22, amended: the same for the batches in which the depth in the metadata of
\* A is 0 or missing and that of B and of C is 1 or more.
C22_LabelsFollowDepthAndParents ==
    Rendered
    => \A a, b, c \in 1..Len(batch.comments) :
          ReplyTriple(a, b, c) /\ DepthsAgree(a, b, c) => LabelledAsThread(a, b, c)

\* A rendered Reddit batch of a root comment A, its reply B, which stands
\* before A, and the orphaned reply C.
C22_Witness ==
    /\ Rendered
    /\ Len(batch.lines) = 3
    /\ batch.platform = "reddit"
    /\ \E a, b, c \in 1..Len(batch.comments) :
          /\ ReplyTriple(a, b, c) /\ DepthsAgree(a, b, c)
          /\ b < a

Elements(seq) == {seq[i] : i \in 1..Len(seq)}

EndsWith(line, text) ==
    /\ Len(line) >= Len(text)
    /\ SubSeq(line, Len(line) - Len(text) + 1, Len(line)) = text

\* C23: the rendered lines are as many as the comments whose content is not
\* empty after trimming; the i-th line is that of the i-th such comment, with
\* its author and its trimmed content; and a reply of depth 1 or more whose
\* declared parent is any comment of the batch, with or without content,
\* before or after the reply, is labelled with that comment's author.
C23_OneLinePerComment ==
    Rendered
    => /\ Len(batch.lines) =
             Cardinality({k \in 1..Len(batch.comments) : HasContent(batch.comments[k])})
       /\ \A k \in 1..Len(batch.comments) :
             HasContent(batch.comments[k])
             => /\ EndsWith(LineOf(k), <<":", " ">> \o strip(batch.comments[k].content))
                /\ batch.comments[k].author \in Elements(LineOf(k))
                /\ \A a \in 1..Len(batch.comments) :
                      /\ batch.comments[k].depth >= 1
                      /\ batch.comments[k].parent_external_id = batch.comments[a].external_id
                      => HasReplyToLabel(LineOf(k), batch.comments[a].author)

\* A rendered batch with fewer lines than comments, in which a reply is
\* labelled with the author of a comment that has no content and stands after
\* the reply.
C23_Witness ==
    /\ Rendered
    /\ 0 < Len(batch.lines)
    /\ Len(batch.lines) < Len(batch.comments)
    /\ \E k, a \in 1..Len(batch.comments) :
          /\ k < a
          /\ HasContent(batch.comments[k])
          /\ ~HasContent(batch.comments[a])
          /\ batch.comments[k].parent_external_id = batch.comments[a].external_id
          /\ HasReplyToLabel(LineOf(k), batch.comments[a].author)

Normalised == batch.phase # "fetched" /\ batch.phase # "none"

\* The k-th raw comment of the batch is a comment that carries an id: a Reddit
\* dict with a name or an id, a DCInside node, other than the write form, with
\* one of the id attributes or an element id "comment_cnt_<id>".
RawHasId(k) ==
    LET raw == batch.raw[k]
    IN  IF batch.platform = "reddit"
        THEN raw.is_dict /\ (raw.name # "" \/ raw.id # "")
        ELSE /\ \A c \in Elements(raw.classes) : c \notin WriteClasses
             /\ \/ raw.data_no # ""
                \/ \E tail \in BareIds \ {""} : raw.node_id = COMMENT_CNT_PREFIX \o tail

\* The k-th raw comment is marked as deleted, by its flag or class or by a
\* content that is the deletion marker.
RawDeleted(k) ==
    LET raw == batch.raw[k]
    IN  IF batch.platform = "reddit"
        THEN raw.is_deleted \/ strip(raw.body) \in DELETED_MARKERS
        ELSE "del" \in Elements(raw.classes) \/ strip(raw.txt) = DELETED_WORD

\* The record of the k-th raw comment, which has an id: records are in the
\* order of the raw comments, one per raw comment with an id.
RecordOf(k) ==
    batch.comments[Cardinality({j \in 1..k : RawHasId(j)})]

\* C24: the normaliser returns as many records as there are raw comments with
\* an id; the i-th record is that of the i-th such raw comment, with its id and
\* its author; and the record of a raw comment marked as deleted has
\* is_deleted set.
C24_OneRecordPerRawComment ==
    Normalised
    => /\ Len(batch.comments) = Cardinality({k \in 1..Len(batch.raw) : RawHasId(k)})
       /\ \A k \in 1..Len(batch.raw) :
             RawHasId(k)
             => /\ RecordOf(k).external_id \in {ToString(k), T1_PREFIX \o ToString(k)}
                /\ RecordOf(k).author \in {"u" \o ToString(k), UNKNOWN_AUTHOR}
                /\ RawDeleted(k) => RecordOf(k).is_deleted

\* A normalised batch that lost a raw comment without an id and kept, behind
\* it, a comment marked as deleted.
C24_Witness ==
    /\ Normalised
    /\ batch.platform = "dcinside"
    /\ \E j, k \in 1..Len(batch.raw) :
          /\ j < k
          /\ ~RawHasId(j)
          /\ RawHasId(k) /\ RawDeleted(k)
          /\ RecordOf(k).is_deleted
          /\ Len(batch.comments) < Len(batch.raw)

\* The parent the k-th raw comment names is a comment of the platform: a
\* Reddit id with the comment prefix, a DCInside number other than "0".
RawParentIsComment(k) ==
    IF batch.platform = "reddit"
    THEN \E tail \in BareIds : batch.raw[k].parent_id = T1_PREFIX \o tail
    ELSE batch.raw[k].data_parent \notin {"0", ""}

RawParent(k) ==
    IF batch.platform = "reddit" THEN batch.raw[k].parent_id ELSE batch.raw[k].data_parent

\* C25: the external id of a Reddit record is the id of the raw comment with
\* the prefix "t1_" in front exactly once, whether the raw comment gave it with
\* the prefix or without; the parent_external_id of a record is the parent the
\* raw comment names when that is a comment of the platform, and null for a
\* post id, "0", an empty or a missing parent.
C25_PrefixedIdsAndCommentParents ==
    Normalised
    => \A k \in 1..Len(batch.raw) :
          RawHasId(k)
          => /\ batch.platform = "reddit"
                => RecordOf(k).external_id = T1_PREFIX \o ToString(k)
             /\ batch.platform = "dcinside" => RecordOf(k).external_id = ToString(k)
             /\ RawParentIsComment(k) => RecordOf(k).parent_external_id = RawParent(k)
             /\ ~RawParentIsComment(k) => RecordOf(k).parent_external_id = ""

\* A normalised Reddit batch with a record whose raw comment gave its id
\* without the prefix, one whose raw comment gave it with the prefix, a kept
\* comment parent and a dropped post parent.
C25_Witness ==
    /\ Normalised
    /\ batch.platform = "reddit"
    /\ \E i, j \in 1..Len(batch.raw) :
          /\ RawHasId(i) /\ RawHasId(j)
          /\ batch.raw[i].name = "" /\ batch.raw[j].name # ""
          /\ RecordOf(i).external_id = T1_PREFIX \o batch.raw[i].id
          /\ RecordOf(j).external_id = batch.raw[j].name
          /\ RecordOf(i).parent_external_id = "t1_1"
          /\ batch.raw[j].parent_id = "t3_p"
          /\ RecordOf(j).parent_external_id = ""

\* C26: an item has at most one summary row per model name.
C26_OneSummaryPerModel ==
    \A i \in ItemIds : \A r1, r2 \in db.summary[i] :
        r1.model_name = r2.model_name => r1 = r2

\* The handler of thread t writes a summary by model m for its item in this
\* step.
WritesSummary(t, m) ==
    /\ job[t].phase = "running"
    /\ job'[t].phase = "finished"
    /\ job'[t].exit = "returned"
    /\ job'[t].model_used = m
    /\ \E r \in db'.summary[job'[t].item_id] : r \notin db.summary[job'[t].item_id]

\* C26 for update_item_with_summary of services/db/items.py, which the queue
\* workers call: a summary written by model m leaves exactly one row of m, the
\* rows of the other models as they were.
C26_WorkerReplacesSummaryOfModel ==
    [][\A t \in MainThread : \A m \in {"M1", "M2"} :
          WritesSummary(t, m)
          => LET before == db.summary[job'[t].item_id]
                 after == db'.summary[job'[t].item_id]
             IN  /\ Cardinality({r \in after : r.model_name = m}) = 1
                 /\ {r \in after : r.model_name # m} = {r \in before : r.model_name # m}]_vars

\* The committed comment rows of the item of thread t's delivery change in this
\* step.
CommentsCommitted(t) ==
    /\ job'[t].item_id \in ItemIds
    /\ db'.comment[job'[t].item_id] # db.comment[job'[t].item_id]

\* C27 as stated: the comment replacement commits on its own, so the commit
\* that brings the comments of the fetch leaves the assets, the item row and
\* the summary rows as they were.
C27_CommentsCommitAlone ==
    [][\A t \in MainThread :
          CommentsCommitted(t)
          => LET i == job'[t].item_id
             IN  /\ db'.asset[i] = db.asset[i]
                 /\ db'.item[i] = db.item[i]
                 /\ db'.summary[i] = db.summary[i]]_vars

\* C27, amended: the comments of a fetch are committed together with its
\* assets, by the commit of replace_item_assets when the fetch has assets and
\* by that of the summary write or of delete_item otherwise, so the committed
\* assets of an item are those of the fetch whenever its comments are.
C27_CommentsCommitWithAssets ==
    [][\A t \in MainThread :
          CommentsCommitted(t)
          => LET i == job'[t].item_id
             IN  \/ /\ job'[t].phase = "running"
                    /\ job'[t].image_paths # <<>>
                    /\ db'.asset[i] = job'[t].image_paths
                    /\ db'.item[i] = db.item[i]
                    /\ db'.summary[i] = db.summary[i]
                 \/ /\ job'[t].phase = "finished"
                    /\ job'[t].exit = "returned"
                    /\ db'.asset[i] = job'[t].image_paths]_vars

\* After a crash the item has the comment and the asset of the fetch, and the
\* body and the summary of the run before.
C27_Witness ==
    \E t \in MainThread :
        /\ job[t].exit = "crashed"
        /\ job[t].item_id = 1
        /\ db.comment[1] = <<CommentRow("c1", <<"c">>), CommentRow("c2", <<"d", "e">>)>>
        /\ db.asset[1] = <<"a.jpg">>
        /\ db.item[1].content = <<"o">>
        /\ db.summary[1] = {SummaryRow("M1", <<"old">>, <<"old">>)}

\* The delivery that thread t's handler finishes in this step, having
\* returned, is not the first of its message.
RedeliveryCompletes(t) ==
    /\ job'[t].phase = "finished"
    /\ job[t].phase # "finished" \/ job'[t].msg # job[t].msg
    /\ job'[t].exit = "returned"
    /\ job'[t].item_id \in ItemIds
    /\ broker'.deliveries[job'[t].msg] >= 2

\* The summary row this run wrote for its model, if it wrote one.
SummaryOfRun(t) ==
    {r \in db'.summary[job'[t].item_id] : r.model_name = job'[t].model_used}

\* The summaries the attempts before this run committed are by the model of
\* this run.
SameModelAsBefore(t) ==
    \A r \in db.summary[job'[t].item_id] \ ProcessedDatabase.summary[job'[t].item_id] :
        r.model_name = job'[t].model_used

\* The rows one uninterrupted run of the job gives on the database the worker
\* started with, for the fetch and the summary of this run.
UninterruptedRun(t) ==
    LET body == Body("object", "int", job'[t].item_id)
        start == process_message_start(body, ProcessedDatabase, site, worker, config, now)
        summary == IF SummaryOfRun(t) = {} THEN NoneText
                   ELSE (CHOOSE r \in SummaryOfRun(t) : TRUE).summary_text
        summary_title == IF SummaryOfRun(t) = {} THEN NoneText
                         ELSE (CHOOSE r \in SummaryOfRun(t) : TRUE).summary_title
    IN  IF start.exit = "continue"
        THEN update_item_with_summary(start.tx, summary, job'[t].summary_input,
                                      Len(job'[t].image_paths), job'[t].model_used,
                                      summary_title, job'[t].last_error, now)
        ELSE start.committed

\* C28: when a delivery that is not the first of its message completes, after
\* attempts that were interrupted or lost their channel and that summarised, if
\* at all, with the same model, the comments, assets, item row and summary rows
\* of the item are those of one uninterrupted run on the database the worker
\* started with.
C28_RedeliveryGivesSameRows ==
    [][\A t \in MainThread :
          RedeliveryCompletes(t) /\ SameModelAsBefore(t)
          => RowsOf(db', job'[t].item_id) = UninterruptedRun(t)]_vars

\* A job with comments and an asset has been delivered a second time and this
\* delivery has completed with a summary by the second model.
C28_Witness ==
    \E t \in MainThread :
        /\ job[t].phase = "finished"
        /\ job[t].exit = "returned"
        /\ job[t].item_id = 1
        /\ broker.deliveries[job[t].msg] = 2
        /\ job[t].image_paths = <<"a.jpg">>
        /\ Len(db.comment[1]) = 2
        /\ db.asset[1] = <<"a.jpg">>
        /\ \E r \in db.summary[1] : r.model_name = "M2"

-----------------------------------------------------------------------------
\* The store scripts.

PublishedJobs == producer.published
AuditedRun == producer.logged /\ producer.log # <<>>
LastAudit == producer.log[Len(producer.log)]

\* The item of the k-th post that passed the filter.
ItemOfPost(k) ==
    CHOOSE i \in conflicting(db, producer.source.id, post_external_id(producer.posts[k])) : TRUE

PostsAreStored ==
    \A k \in 1..Len(producer.posts) :
        conflicting(db, producer.source.id, post_external_id(producer.posts[k])) # {}

\* C29: in one producer run, one job message is published for each post that
\* passed the filter and was upserted, with the id of its item, none for any
\* other item, and the audit entry of the run records a queued count equal to
\* the number of messages published.
C29_OneJobPerUpsertedPost ==
    producer.runs = 1 =>
        /\ PostsAreStored
        /\ Len(PublishedJobs) = Len(producer.posts)
        /\ \A k \in 1..Len(producer.posts) : PublishedJobs[k] = ItemOfPost(k)
        /\ producer.posts # <<>> =>
              AuditedRun /\ LastAudit.queued_count = Len(PublishedJobs)

\* What holds of every run whose connection to the broker held: the same.
C29_OneJobPerUpsertedPostWhenPublished ==
    (producer.runs = 1 /\ ~producer.failed) =>
        /\ PostsAreStored
        /\ Len(PublishedJobs) = Len(producer.posts)
        /\ \A k \in 1..Len(producer.posts) : PublishedJobs[k] = ItemOfPost(k)
        /\ producer.posts # <<>> =>
              AuditedRun /\ LastAudit.queued_count = Len(PublishedJobs)

\* What a publish that failed leaves: the items upserted, fewer messages than
\* items, and for DCInside an audit row that counts all of them.
C29_FailedPublishState ==
    /\ producer.runs = 1 /\ producer.failed
    /\ producer.platform = "dcinside"
    /\ PostsAreStored
    /\ AuditedRun /\ LastAudit.queued_count > Len(PublishedJobs)

RunLeavesNothing ==
    /\ db' = db
    /\ producer'.item_ids = <<>>
    /\ producer'.published = <<>>
    /\ producer'.log = producer.log

\* C30: a run for a source whose is_active flag is false upserts no item,
\* publishes no job and writes no audit row; a run that finds no source row
\* creates it inactive, and leaves the same.
C30_InactiveSourceIsNotCrawled ==
    [][/\ ~producer'.source.is_active => RunLeavesNothing
       /\ ~producer.source.exists =>
             /\ producer'.created
             /\ producer'.source = Source(TRUE, FALSE)
             /\ RunLeavesNothing]_vars

\* A run created the source and fetched a listing with a post that passes the
\* filter, and queued nothing.
C30_Witness ==
    /\ producer.runs = 1
    /\ producer.created
    /\ ~producer.source.is_active
    /\ \E k \in 1..Len(producer.listing) : producer.listing[k].admissible
    /\ producer.item_ids = <<>>
    /\ producer.published = <<>>
    /\ db.item_id_seq = 0
-----------------------------------------------------------------------------
\* The title+summary reading of an answer.

\* A line of the answer without a title label in front.
Unlabelled(line) ==
    IF line # <<>> /\ Head(line) = TITLE_PREFIX THEN strip(Tail(line)) ELSE line

IsLabelLine(line) == \E label \in LabelLines : line = <<label>>
IsContent(line) == ~IsLabelLine(line)
NonEmptyLine(line) == line # <<>>

\* The non-blank lines left after label-only lines are removed and a leading
\* title label is stripped.
ContentLines ==
    LET split == splitlines(answer.full_text)
        stripped == [k \in 1..Len(split) |-> strip(split[k])]
        unlabelled == SelectSeq(stripped, IsContent)
    IN  SelectSeq([k \in 1..Len(unlabelled) |-> Unlabelled(unlabelled[k])], NonEmptyLine)

\* C31: the title is the first non-blank line left after label-only lines are
\* removed and a leading title label is stripped, the summary is the remaining
\* non-blank lines in order, the title when none remain, and never empty; an
\* answer with no non-blank content line makes the call fail.
C31_TitleIsFirstContentLine ==
    answer.phase = "read" =>
        IF ContentLines = <<>> THEN ~answer.ok
        ELSE /\ answer.ok
             /\ answer.title = ContentLines[1]
             /\ answer.summary = IF Len(ContentLines) = 1 THEN ContentLines[1]
                                 ELSE join_with_newline(Tail(ContentLines))
             /\ answer.summary # <<>>

\* An answer of a label line, then a labelled title, a blank line and a body
\* line was read.
C31_Witness ==
    /\ answer.phase = "read"
    /\ answer.full_text = <<"[title]", "\n", TITLE_PREFIX, "x">>
    /\ answer.ok
    /\ answer.title = <<"x">>
    /\ answer.summary = <<"x">>
-----------------------------------------------------------------------------
\* The age window of the store scripts.

\* now minus the published timestamp, in hours
Age == sieve.clock - sieve.published

InAgeWindow ==
    /\ sieve.min_age <= 0 \/ (sieve.stamped /\ Age >= sieve.min_age)
    /\ sieve.max_age <= 0 \/ (sieve.stamped /\ Age <= sieve.max_age)

\* C32: a post passes the age filter of the producer exactly when (the minimum
\* age is disabled or its age is at least min_age hours) and (the maximum age is
\* disabled or its age is at most max_age hours), age being now minus the
\* published timestamp; a post without a readable timestamp passes no enabled
\* age bound.
C32_PassesExactlyInAgeWindow ==
    (sieve.phase = "filtered" /\ sieve.admissible) => (sieve.passed <=> InAgeWindow)

\* The same of the Reddit producer alone.
C32_RedditPassesExactlyInAgeWindow ==
    (sieve.phase = "filtered" /\ sieve.admissible /\ sieve.platform = "reddit")
        => (sieve.passed <=> InAgeWindow)

\* The DCInside producer measures the age from the wall time of the listing
\* read for UTC: the window it applies lies KST_OFFSET hours later.
C32_DcinsideWindowIsShifted ==
    (sieve.phase = "filtered" /\ sieve.admissible /\ sieve.platform = "dcinside") =>
        (sieve.passed <=>
            /\ sieve.min_age <= 0 \/ (sieve.stamped /\ Age - KST_OFFSET >= sieve.min_age)
            /\ sieve.max_age <= 0 \/ (sieve.stamped /\ Age - KST_OFFSET <= sieve.max_age))

\* A post published ten hours ago passed a maximum age of six hours.
C32_OldPostPassed ==
    /\ sieve.phase = "filtered" /\ sieve.platform = "dcinside"
    /\ sieve.stamped /\ sieve.max_age = 6 /\ sieve.min_age = 0
    /\ Age = 10
    /\ sieve.passed
-----------------------------------------------------------------------------
\* Messages that fail with an unhandled exception.

ReadyHolds(b, msg) == \E k \in 1..Len(b.ready) : b.ready[k] = msg

FailsUnhandled(t) ==
    /\ job'[t] # job[t]
    /\ job'[t].phase = "finished"
    /\ job'[t].exit = "exception"

\* C33: a message whose processing raises an unhandled exception is nacked
\* with requeue=true, on its first delivery and on every later one: after the
\* delivery the message is in the queue again, with its body, and was never
\* acknowledged or rejected for good.
C33_UnhandledFailureRequeuedEveryTime ==
    [][\A t \in Threads :
          FailsUnhandled(t) =>
              LET msg == job'[t].msg
              IN  /\ job'[t].outcome = IF job'[t].channel_open THEN "nack_requeue"
                                       ELSE "unsettled"
                  /\ job'[t].channel_open =>
                        broker'.settled[msg] = Append(broker.settled[msg], "nack_requeue")
                  /\ ReadyHolds(broker', msg)
                  /\ broker'.bodies = broker.bodies
                  /\ broker'.deliveries[msg] = broker.deliveries[msg] + 1]_vars

\* A message failed with an unhandled exception on each of MaxDeliveries
\* deliveries, was nacked with requeue each time and is in the queue.
C33_Witness ==
    \E msg \in DOMAIN broker.bodies :
        /\ broker.deliveries[msg] = MaxDeliveries
        /\ Len(broker.settled[msg]) = MaxDeliveries
        /\ \A k \in 1..MaxDeliveries : broker.settled[msg][k] = "nack_requeue"
        /\ ReadyHolds(broker, msg)
        /\ \E t \in Threads : job[t].phase = "finished" /\ job[t].exit = "exception"
-----------------------------------------------------------------------------
\* The auto-digest task.

\* C34: the default single-channel mode runs only in a tick in which the
\* subscription table holds no subscription at all and a default channel id is
\* configured; not in a tick where subscriptions exist but none is due.
C34_DefaultModeOnlyWithoutSubscriptions ==
    digest.mode = "default" => (digest.rows_seen = 0 /\ digest.default_channel)

\* What the task does: the default mode runs whenever the query of the tick
\* gave no due subscription, or failed, and a default channel is configured.
C34_DefaultModeWhenNoneSelected ==
    digest.mode = "default" <=>
        (digest.mode # "none" /\ digest.selected = 0 /\ digest.default_channel)

\* The default mode ran in a tick that saw a subscription, none of them due.
C34_DefaultModeBesideSubscription ==
    /\ digest.mode = "default"
    /\ digest.query_ok
    /\ digest.rows_seen > 0
    /\ digest.selected = 0

UniqueChannels(table) ==
    \A j, k \in 1..Len(table) : table[j].channel_id = table[k].channel_id => j = k

RowsWithId(table, id) == {k \in 1..Len(table) : table[k].id = id}

\* One round of the loop of a tick, the query of a tick that selected
\* something, and a registration.
LoopStep == digest.phase = "looping" /\ Len(digest'.subs) = Len(digest.subs) - 1
SelectStep == digest.phase = "idle" /\ digest'.phase = "looping"
RegisterStep ==
    /\ digest'.last.outcome = "registered"
    /\ digest'.clock = digest.clock
    /\ digest'.subs = digest.subs

\* The row of the subscription of this round has next_run_at = now +
\* interval_minutes, and nothing else of the table changed.
Rescheduled ==
    LET sub == Head(digest.subs)
    IN  /\ Len(digest'.table) = Len(digest.table)
        /\ \A k \in 1..Len(digest.table) :
              IF digest.table[k].id = sub.id
              THEN /\ digest'.table[k].next_run_at = digest.clock + sub.interval_minutes
                   /\ \A clock \in 0..(digest.clock + sub.interval_minutes - 1) :
                         ~is_due(digest'.table[k], clock)
                   /\ [digest'.table[k] EXCEPT !.next_run_at = 0]
                         = [digest.table[k] EXCEPT !.next_run_at = 0]
              ELSE digest'.table[k] = digest.table[k]

\* A tick selects the subscriptions that are active and due, all of them
\* when its query succeeds.
SelectsTheDue ==
    /\ \A k \in 1..Len(digest'.subs) :
          /\ is_due(digest'.subs[k], digest.clock)
          /\ \E j \in 1..Len(digest.table) : digest.table[j] = digest'.subs[k]
    /\ \A j \in 1..Len(digest.table) :
          is_due(digest.table[j], digest.clock) =>
              \E k \in 1..Len(digest'.subs) : digest'.subs[k] = digest.table[j]

RegisteredDueAtOnce ==
    /\ UniqueChannels(digest'.table)
    /\ \E k \in 1..Len(digest'.table) :
          /\ digest'.table[k].channel_id = digest'.last.channel_id
          /\ digest'.table[k].next_run_at = digest.clock
          /\ is_due(digest'.table[k], digest.clock)

\* C35 as stated: a due subscription that a tick processes (digest sent, send
\* failed, or no entries found) gets next_run_at = now + interval_minutes and
\* is not selected before that time; one whose channel is not resolved or
\* whose entries query fails keeps its next_run_at and is selected again;
\* registering a channel again keeps one row per channel, due at once.
C35_ProcessedIsRescheduled ==
    [][/\ LoopStep =>
             IF digest'.last.outcome \in {"no_entries", "sent", "send_failed"}
             THEN Rescheduled
             ELSE digest'.table = digest.table
       /\ SelectStep => SelectsTheDue
       /\ RegisterStep => RegisteredDueAtOnce]_vars

\* C35, amended: the same for the rounds whose UPDATE of the row succeeds; a
\* round whose UPDATE fails leaves the table as it is, like the rounds that
\* do not reach the UPDATE.
C35_ProcessedAndRecordedIsRescheduled ==
    [][/\ LoopStep =>
             IF /\ digest'.last.outcome \in {"no_entries", "sent", "send_failed"}
                /\ digest'.last.updated
             THEN Rescheduled
             ELSE digest'.table = digest.table
       /\ SelectStep => SelectsTheDue
       /\ RegisterStep => RegisteredDueAtOnce]_vars

\* A tick could not send the digest of a channel and moved its next run; the
\* other channel, registered again meanwhile, is due.
C35_Witness ==
    /\ digest.last.outcome = "send_failed"
    /\ digest.last.updated
    /\ Len(digest.table) = 2
    /\ \E j, k \in 1..Len(digest.table) :
          /\ digest.table[j].channel_id = digest.last.channel_id
          /\ digest.table[j].next_run_at = digest.clock + digest.table[j].interval_minutes
          /\ ~is_due(digest.table[j], digest.clock)
          /\ k # j
          /\ is_due(digest.table[k], digest.clock)
-----------------------------------------------------------------------------
\* The detail fetch of a job fails.

DetailFetchFails(t) ==
    /\ job'[t] # job[t]
    /\ job'[t].phase = "finished"
    /\ job'[t].exit = "returned"
    /\ job'[t].last_error = MsgDetailFetchFailed

\* C36: on the detail-fetch-failure path of a job the stored body of the item
\* and its raw_text metadata become the empty string, whatever an earlier job
\* stored, while the summary rows, comments and assets of the item stay as
\* they were.
C36_FailedFetchEmptiesBody ==
    [][\A t \in Threads :
          DetailFetchFails(t) =>
              LET item_id == job'[t].item_id
              IN  /\ db'.item[item_id].exists
                  /\ db'.item[item_id].content = <<>>
                  /\ db'.item[item_id].metadata["raw_text"] = <<>>
                  /\ db'.summary[item_id] = db.summary[item_id]
                  /\ db'.comment[item_id] = db.comment[item_id]
                  /\ db'.asset[item_id] = db.asset[item_id]]_vars

\* The detail fetch failed for an item that an earlier job had processed: its
\* body is gone, its summary, comments and assets are the old ones.
C36_Witness ==
    \E t \in Threads :
        /\ job[t].phase = "finished"
        /\ job[t].last_error = MsgDetailFetchFailed
        /\ job[t].exit = "returned"
        /\ db.item[job[t].item_id].content = <<>>
        /\ db.summary[job[t].item_id] = ProcessedItem("e1").summary
        /\ db.comment[job[t].item_id] = ProcessedItem("e1").comment
        /\ db.asset[job[t].item_id] = ProcessedItem("e1").asset
        /\ ProcessedItem("e1").item.content # <<>>
-----------------------------------------------------------------------------
\* A failed summarise call for an item that has a summary.

\* The model the failure is tagged with, the first of the priority list when
\* it carries no tag.
TagOrPrimary(t) ==
    IF result[t].last_model # None THEN result[t].last_model ELSE config.model_priorities[1]

SummaryTextsOf(database, item_id, model_name) ==
    {row.summary_text : row \in {r \in database.summary[item_id] : r.model_name = model_name}}

FailsOverOldSummary(t) ==
    /\ ReturnsAfterFailure(t)
    /\ job'[t].exit # "crashed"
    /\ SummaryTextsOf(db, job[t].item_id, TagOrPrimary(t)) # {}

\* C37 as stated: when the summarise call fails for an item that has a summary
\* row of model M from an earlier job, and the failure is tagged with M, or
\* has no tag while M is the primary model, the stored summary text of
\* (item, M) is replaced by the fallback excerpt.
C37_FallbackReplacesOldSummary ==
    [][\A t \in MainThread :
          FailsOverOldSummary(t) =>
              SummaryTextsOf(db', job[t].item_id, TagOrPrimary(t))
                  = {SlicePrefix(job[t].summary_input, config.max_text_length)}]_vars

\* C37, amended: the same when the excerpt is not empty; when it is empty (a
\* length limit of 0) the summary row of (item, M) stays as it was.
C37_NonEmptyFallbackReplacesOldSummary ==
    [][\A t \in MainThread :
          FailsOverOldSummary(t) =>
              LET excerpt == SlicePrefix(job[t].summary_input, config.max_text_length)
              IN  SummaryTextsOf(db', job[t].item_id, TagOrPrimary(t))
                      = IF excerpt # <<>> THEN {excerpt}
                        ELSE SummaryTextsOf(db, job[t].item_id, TagOrPrimary(t))]_vars

\* The item of the first message starts with a summary row of the primary
\* model (InitRestart).  A job without an API key is over for it: the excerpt
\* stands in the place of the old summary text.
C37_Witness ==
    \E t \in MainThread :
        /\ SummaryTextsOf(ProcessedDatabase, 1, "M1") = {<<"old">>}
        /\ job[t].phase = "finished"
        /\ job[t].exit # "crashed"
        /\ job[t].item_id = 1
        /\ job[t].last_error = MsgMissingKey
        /\ job[t].model_used = "M1"
        /\ SummaryTextsOf(db, 1, "M1")
              = {SlicePrefix(job[t].summary_input, config.max_text_length)}
        /\ SlicePrefix(job[t].summary_input, config.max_text_length) \notin {<<>>, <<"old">>}
-----------------------------------------------------------------------------
\* Jobs and the rows of their items.

RowExists(item_id) == db.item[item_id].exists

\* Every job in the queue is for an item whose row is there, unless the worker
\* deleted it, and so the worker found every item it looked for.
JobsHaveRows ==
    /\ \A item_id \in Elements(pipeline.queue) :
          RowExists(item_id) \/ item_id \in pipeline.deleted
    /\ \A t \in Elements(pipeline.taken) : t.found \/ t.was_deleted

PublishFailsStep == pipeline.phase = "publishing" /\ pipeline'.failed

JobsOfRun(jobs, run) == {k \in DOMAIN jobs : jobs[k].run = run}

\* C38: a job is published only after the transaction that upserted its item
\* is committed, so the worker that takes the job finds the row unless the
\* item was deleted in between; a publish that fails after the commit leaves
\* the items stored and without a job, and a job is only ever published by a
\* run for the items of the posts that this run upserted.
C38_JobsFollowTheCommit ==
    [][/\ JobsHaveRows'
       /\ PublishFailsStep =>
             /\ db' = db
             /\ pipeline'.queue = pipeline.queue
             /\ pipeline'.jobs = pipeline.jobs
             /\ Cardinality(JobsOfRun(pipeline.jobs, pipeline.runs))
                   = Len(pipeline.item_ids) - Len(pipeline.pending)
             /\ \A item_id \in Elements(pipeline.pending) :
                   RowExists(item_id) \/ item_id \in pipeline.deleted
       /\ pipeline'.jobs # pipeline.jobs =>
             /\ pipeline.phase = "publishing"
             /\ \E k \in DOMAIN pipeline.item_ids :
                   /\ k = Len(pipeline.item_ids) - Len(pipeline.pending) + 1
                   /\ pipeline'.jobs
                         = Append(pipeline.jobs, Job(pipeline.item_ids[k], pipeline.runs))
                   /\ pipeline'.queue = Append(pipeline.queue, pipeline.item_ids[k])]_vars

\* The first run stored an item and failed to publish its job; the second run
\* saw the post again and published one, and the worker found the row.
C38_Witness ==
    \E item_id \in pipeline.stranded :
        /\ \A k \in JobsOfRun(pipeline.jobs, 1) : pipeline.jobs[k].item_id # item_id
        /\ \E k \in JobsOfRun(pipeline.jobs, 2) : pipeline.jobs[k].item_id = item_id
        /\ \E t \in Elements(pipeline.taken) : t.item_id = item_id /\ t.found
-----------------------------------------------------------------------------
\* Jobs for posts that were stored before.

JobIdsOfRun(jobs, run) ==
    LET OfRun(j) == j.run = run
        of_run == SelectSeq(jobs, OfRun)
    IN  [k \in DOMAIN of_run |-> of_run[k].item_id]

UpsertStep == pipeline'.runs # pipeline.runs

\* What the upsert of a run does with each post: a post whose item is stored
\* keeps the id and the summaries of the item, a post without a stored item,
\* deleted ones included, gets an id that no item had before.
UpsertKeepsOrRenews ==
    UpsertStep =>
        /\ Len(pipeline'.item_ids) = Len(pipeline'.posts)
        /\ \A k \in DOMAIN pipeline'.posts :
              LET external_id == post_external_id(pipeline'.posts[k])
                  existing == conflicting(db, 1, external_id)
                  item_id == pipeline'.item_ids[k]
              IN  /\ db'.item[item_id].exists
                  /\ db'.item[item_id].external_id = external_id
                  /\ IF existing # {}
                     THEN item_id \in existing /\ db'.summary[item_id] = db.summary[item_id]
                     ELSE item_id > db.item_id_seq /\ item_id \notin pipeline.deleted

RunEnds == pipeline.phase = "publishing" /\ pipeline'.phase = "idle"

-----------------------------------------------------------------------------
\* Two calls of get_or_create_source for one code.

CallReturned(reg, p) == reg.call[p].at = "returned"

BothReturned(reg) == \A p \in Callers : CallReturned(reg, p)

Creators(reg) == {p \in Callers : reg.call[p].created}

\* At most one row of the code; no step of a call changes a row that exists;
\* a call returns the row of the code as the table holds it then.
CallsKeepRows ==
    /\ Cardinality(RowsWithCode(registry'.table, SOURCE_CODE)) <= 1
    /\ registry'.activated = registry.activated => registry.table \subseteq registry'.table
    /\ \A p \in Callers :
          ~CallReturned(registry, p) /\ CallReturned(registry', p) =>
              registry'.call[p].got \in RowsWithCode(registry'.table, SOURCE_CODE)

\* Both calls are over: one row of the code, and both callers got its values.
OneRowForBoth ==
    /\ Cardinality(RowsWithCode(registry'.table, SOURCE_CODE)) = 1
    /\ \A p, q \in Callers :
          /\ registry'.call[p].got.id = registry'.call[q].got.id
          /\ registry'.call[p].got.name = registry'.call[q].got.name

\* C40 as stated: when two store scripts call get_or_create_source at the
\* same time with the same code, one row of the code exists afterwards, one
\* caller gets created = true, both callers get the values stored in the row,
\* and no call changes a field of a row that exists, is_active included.
C40_OneRowOneCreator ==
    [][/\ CallsKeepRows
       /\ BothReturned(registry') =>
             OneRowForBoth /\ Cardinality(Creators(registry')) = 1]_vars

\* C40, amended: the same, with one caller that gets created = true when no
\* row of the code was there before the calls, and none when there was one.
C40_OneRowOneCreatorOfMissingRow ==
    [][/\ CallsKeepRows
       /\ BothReturned(registry') =>
             /\ OneRowForBoth
             /\ Cardinality(Creators(registry')) = IF registry.seeded THEN 0 ELSE 1]_vars

\* Both calls found no row and went on to insert: one of them created the row
\* under its name, the other one's INSERT wrote nothing and took a value of
\* the id sequence, and its second SELECT gave it the row of the first.
C40_Witness ==
    /\ BothReturned(registry)
    /\ ~registry.seeded
    /\ registry.call[1].name # registry.call[2].name
    /\ registry.id_seq = Cardinality(registry.table) + 1
    /\ \E p \in Callers, r \in RowsWithCode(registry.table, SOURCE_CODE) :
          /\ Creators(registry) = {p}
          /\ r.name = registry.call[p].name
          /\ \A q \in Callers : registry.call[q].got.id = r.id /\ registry.call[q].got.name = r.name
====
